---------------------------- MODULE Spec2Model ----------------------------
(***************************************************************************)
(* Bot-Detection-System: the traffic classification pipeline.              *)
(*                                                                         *)
(* Units.  The detector works on Python floats; the model keeps every      *)
(* quantity as an exact integer:                                           *)
(*   confidence              thousandths   (0.3 -> 300, 1.0 -> 1000)       *)
(*   signature/ua score      hundredths    (0.95 -> 95), weight 0.3 -> x3  *)
(*   error_rate              percent       (0.3 -> 30)                     *)
(*   requests_per_minute     requests per minute                           *)
(*   avg_response_time       milliseconds                                  *)
(* For every combination of the six signals and every score a signature    *)
(* can give, the float sums of the code fall on the same side of each      *)
(* comparison the code makes (> 0.5, >= 0.5, >= 0.7, >= 0.9, min 1.0) as   *)
(* the exact sums, so the integer model decides them identically.          *)
(*                                                                         *)
(* Strings that the code inspects character by character (user agents,     *)
(* regex literals) are sequences of one-character strings.                 *)
(***************************************************************************)
EXTENDS Integers, Sequences, FiniteSets, TLC

VARIABLES
    phase,              \* where the run stands: "start", "parsing", "patterns", "detected", "exported",
                        \* "reading", "parsed", "main_reading", "main_parsed", "main_analyzed",
                        \* "looping", "returned", and "failed" once a call has raised
    log_entries,        \* entries returned by the parser so far (list of LogEntry)
    traffic_patterns,   \* the detector's input dict, in insertion order (list of TrafficPattern, distinct ips)
    detection_results,  \* the dict returned by detect_bots, in insertion order
    min_risk_level,     \* argument of the last export_blocklist call, "none" before any call
    blocklist,          \* list returned by the last export_blocklist call, <<>> when it returned nothing
    error,              \* exception raised by the last call, "none" when it returned
    timestamp_text,     \* argument of a _parse_timestamp call made on its own, <<>> without one
    timestamp_value,    \* what that call returned: <<datetime>>, or <<>> for None
    log_file,           \* the log file of the run: whether it exists, its lines, where reading it fails
    returned,           \* what parse_log_line returned for each line read in the current pass
    handle,             \* the file object of open(): "none" before the call, then "open" or "closed"
    previous_entries,   \* <<list>> returned by the previous parse_log_file call on the file, <<>> without one
    exit_status,        \* return value of main() of main_analyzer.py, -1 while it has not returned
    stages,             \* the stages after parsing that main() has executed, in order
    log_files,          \* analyze_logs.py: args.log_files
    file_index,         \* analyze_logs.py: how many files the loop has taken
    reports,            \* analyze_logs.py: what the loop reported for each file taken
    config,             \* the configuration dict handed to validate_analysis_config
    config_errors,      \* the error list validate_analysis_config returned
    windows,            \* the tumbling windows of the entry stream, in time order, by their statistics
    ddos_alerts,        \* the DDosAlert list of the window scan
    ip_counts,          \* main(): the ip_counts dict after the entry loop, in insertion order
    top_threats,        \* main(): analysis_results['top_threats'], written to the JSON and CSV reports
    summary_threats,    \* save_analysis_reports: the threats listed under TOP THREATS in the summary
    top_bots,           \* generate_bot_report: the 'top_bots' list of the report
    previous_results,   \* <<dict>> returned by the previous detect_bots call on the patterns, <<>> without one
    argument,           \* the string handed to a ValidationUtils function called on its own
    return_value,       \* <<string>> that call returned, <<>> before it returns
    stats,              \* <<dict>> returned by get_log_statistics, <<>> before it returns
    output_dir,         \* the files and directories of the output directory, each with its writer
    announced,          \* the files main() printed under REPORTS GENERATED
    visualizer          \* <<self.timestamp>> of the ProfessionalVisualizer, <<>> before it is constructed

\* the variables of the detector and of the pipeline that feeds it
detectorVars == <<log_entries, traffic_patterns, detection_results,
                  min_risk_level, blocklist>>

\* the variables of reading and parsing a file
parserVars == <<timestamp_text, timestamp_value, log_file, returned, handle, previous_entries>>

\* the variables of the command-line entry points
runVars == <<exit_status, stages, log_files, file_index, reports>>

\* the variables of the configuration check
configVars == <<config, config_errors>>

\* the variables of the DDoS window scan
ddosVars == <<windows, ddos_alerts>>

\* the variables of the threat lists of the reports
threatVars == <<ip_counts, top_threats, summary_threats, top_bots>>

\* the variables of the reporting stages
\* the variables of a ValidationUtils call
validationVars == <<argument, return_value>>

\* the variables of the report files
outputVars == <<output_dir, announced, visualizer>>

laterVars == <<threatVars, previous_results, validationVars, stats, outputVars>>

\* the variables of the stages beside parsing and detection
extraVars == <<configVars, ddosVars, laterVars>>

vars == <<phase, error, detectorVars, parserVars, runVars, extraVars>>

----------------------------------------------------------------------------
(* Bounds of the model *)

\* longest user_agents list of a pattern handed to the detector
MaxUserAgents == 2

\* most IPs in one detect_bots call of the batch specification
MaxIPs == 3

\* most log lines parsed in one run of the pipeline
MaxEntries == 3

\* most lines of a log file read from disk
MaxLines == 3

\* most files on the command line of analyze_logs.py
MaxFiles == 3

\* most windows in an entry stream
MaxWindows == 2

\* IPs of one threat ranking: one more than the lists may hold
MaxThreatIPs == 11

\* characters of a user agent handed to sanitize_user_agent, beside the long ones
MaxTextLen == 3

\* pieces (characters and percent-escapes) of a path handed to normalize_path
MaxPathPieces == 3

----------------------------------------------------------------------------
(* Generic helpers *)

Min(a, b) == IF a <= b THEN a ELSE b

SetMax(S) == CHOOSE x \in S : \A y \in S : y <= x

Range(s) == {s[i] : i \in 1..Len(s)}

\* the ASCII upper-case letters and their lower-case forms
UpperToLower ==
    "A" :> "a" @@ "B" :> "b" @@ "C" :> "c" @@ "D" :> "d" @@ "E" :> "e" @@ "F" :> "f" @@
    "G" :> "g" @@ "H" :> "h" @@ "I" :> "i" @@ "J" :> "j" @@ "K" :> "k" @@ "L" :> "l" @@
    "M" :> "m" @@ "N" :> "n" @@ "O" :> "o" @@ "P" :> "p" @@ "Q" :> "q" @@ "R" :> "r" @@
    "S" :> "s" @@ "T" :> "t" @@ "U" :> "u" @@ "V" :> "v" @@ "W" :> "w" @@ "X" :> "x" @@
    "Y" :> "y" @@ "Z" :> "z"

\* case folding of one character, as re.IGNORECASE compares ASCII letters
LowerChar(c) == IF c \in DOMAIN UpperToLower THEN UpperToLower[c] ELSE c

\* lit occurs in s starting at position k
OccursAt(s, lit, k) ==
    /\ k + Len(lit) - 1 <= Len(s)
    /\ \A j \in 1..Len(lit) : s[k + j - 1] = lit[j]

\* the same, letters compared without regard to case
OccursAtIgnoreCase(s, lit, k) ==
    /\ k + Len(lit) - 1 <= Len(s)
    /\ \A j \in 1..Len(lit) : LowerChar(s[k + j - 1]) = LowerChar(lit[j])

----------------------------------------------------------------------------
(* Bot signatures: detectors.py _load_bot_signatures *)

\* A user-agent regex of the signature table.  Every pattern of the table is
\* either  lit.*  (lead_any = FALSE) or  .*lit.*  (lead_any = TRUE).
Regex(lead_any, lit) == [lead_any |-> lead_any, lit |-> lit]

BotSignatures == <<
    [name |-> "Curl Bot", confidence_score |-> 90,
     user_agent_patterns |-> << Regex(FALSE, <<"c", "u", "r", "l", "/">>) >>],
    [name |-> "Python Requests", confidence_score |-> 80,
     user_agent_patterns |-> << Regex(FALSE, <<"p", "y", "t", "h", "o", "n", "-",
                                  "r", "e", "q", "u", "e", "s", "t", "s", "/">>) >>],
    [name |-> "Wget Bot", confidence_score |-> 90,
     user_agent_patterns |-> << Regex(FALSE, <<"W", "g", "e", "t", "/">>) >>],
    [name |-> "Generic Bot", confidence_score |-> 70,
     user_agent_patterns |-> << Regex(TRUE, <<"b", "o", "t">>),
                                Regex(TRUE, <<"c", "r", "a", "w", "l", "e", "r">>),
                                Regex(TRUE, <<"s", "p", "i", "d", "e", "r">>) >>],
    [name |-> "Headless Browser", confidence_score |-> 60,
     user_agent_patterns |-> << Regex(FALSE, <<"H", "e", "a", "d", "l", "e", "s", "s",
                                  "C", "h", "r", "o", "m", "e">>),
                                Regex(FALSE, <<"P", "h", "a", "n", "t", "o", "m", "J", "S">>) >>],
    [name |-> "Security Scanner", confidence_score |-> 95,
     user_agent_patterns |-> << Regex(TRUE, <<"s", "c", "a", "n">>),
                                Regex(TRUE, <<"v", "u", "l", "n">>),
                                Regex(TRUE, <<"s", "e", "c", "u", "r", "i", "t", "y">>) >>]
>>

\* detectors.py BotDetector.__init__: self.rate_limit_thresholds
RateLimitThresholds ==
    [requests_per_minute |-> 10, requests_per_hour |-> 300,
     error_rate_threshold |-> 30, suspicious_path_threshold |-> 10]

\* re.match(pattern, ua, re.IGNORECASE): the match is anchored at the start of
\* ua; ".*" consumes any run of characters (a user agent taken from one log
\* line holds no newline).
ReMatch(regex, ua) ==
    IF regex.lead_any
    THEN \E k \in 1..Len(ua) : OccursAtIgnoreCase(ua, regex.lit, k)
    ELSE OccursAtIgnoreCase(ua, regex.lit, 1)

\* mutant of AnalyzeUserAgents: the scores of the matching signatures added up
AnalyzeUserAgentsSummed(user_agents) ==
    IF user_agents = <<>>
    THEN 50
    ELSE LET hit == {h \in 1..Len(BotSignatures) :
                       \E u \in 1..Len(user_agents) :
                         \E q \in 1..Len(BotSignatures[h].user_agent_patterns) :
                           ReMatch(BotSignatures[h].user_agent_patterns[q],
                                   user_agents[u])}
             Total[S \in SUBSET hit] ==
                 IF S = {} THEN 0
                 ELSE LET h == CHOOSE x \in S : TRUE
                      IN  BotSignatures[h].confidence_score + Total[S \ {h}]
         IN  Total[hit]

\* detectors.py _analyze_user_agents: 0.5 for an empty list, otherwise the
\* running maximum of the scores of the signatures one of whose patterns
\* matches one of the user agents (0 when none does).
AnalyzeUserAgents(user_agents) ==
    IF user_agents = <<>>
    THEN 50
    ELSE SetMax({0} \cup
                {BotSignatures[g].confidence_score :
                    g \in {h \in 1..Len(BotSignatures) :
                             \E u \in 1..Len(user_agents) :
                               \E q \in 1..Len(BotSignatures[h].user_agent_patterns) :
                                 ReMatch(BotSignatures[h].user_agent_patterns[q],
                                         user_agents[u])}})

\* mutant of IsTimingSuspicious: the response-time comparison inverted
IsTimingSuspiciousInverted(pattern) ==
    /\ pattern.requests_per_minute > 5
    /\ pattern.avg_response_time >= 100

\* detectors.py _is_timing_suspicious
IsTimingSuspicious(pattern) ==
    /\ pattern.requests_per_minute > 5
    /\ pattern.avg_response_time < 100

\* mutant of CalculateRiskLevel: the confidence bounds taken as strict
CalculateRiskLevelStrict(confidence, pattern) ==
    IF confidence > 900 \/ pattern.suspicious_requests > 5 THEN "CRITICAL"
    ELSE IF confidence > 700 \/ pattern.requests_per_minute > 20 THEN "HIGH"
    ELSE IF confidence > 500 \/ pattern.requests_per_minute > 10 THEN "MEDIUM"
    ELSE "LOW"

\* detectors.py _calculate_risk_level
CalculateRiskLevel(confidence, pattern) ==
    IF confidence >= 900 \/ pattern.suspicious_requests > 5 THEN "CRITICAL"
    ELSE IF confidence >= 700 \/ pattern.requests_per_minute > 20 THEN "HIGH"
    ELSE IF confidence >= 500 \/ pattern.requests_per_minute > 10 THEN "MEDIUM"
    ELSE "LOW"

\* the dict literal of _recommend_action
Actions ==
    [CRITICAL |-> "BLOCK_IMMEDIATELY - High confidence malicious bot",
     HIGH     |-> "RATE_LIMIT_STRICT - Apply strict rate limiting",
     MEDIUM   |-> "RATE_LIMIT_MODERATE - Apply moderate rate limiting",
     LOW      |-> "MONITOR - Continue monitoring for patterns"]

\* mutant of RecommendAction: one rate-limit action for HIGH and MEDIUM
RecommendActionOneRateLimit(risk_level, pattern) ==
    CASE risk_level = "CRITICAL" -> "BLOCK_IMMEDIATELY - High confidence malicious bot"
      [] risk_level \in {"HIGH", "MEDIUM"} -> "RATE_LIMIT - Apply rate limiting"
      [] OTHER -> "MONITOR - Continue monitoring for patterns"

\* detectors.py _recommend_action: actions.get(risk_level, "MONITOR")
RecommendAction(risk_level, pattern) ==
    IF risk_level \in DOMAIN Actions THEN Actions[risk_level] ELSE "MONITOR"

\* one entry of the reasons list: the message and the value formatted into it
\* (0 for a message that carries no value)
Reason(msg, value) == [msg |-> msg, value |-> value]

\* One block of _analyze_single_ip: what it adds to the local variable
\* confidence and what it appends to the list reasons.
Step(add, reasons) == [add |-> add, reasons |-> reasons]

\* _analyze_single_ip, "Rate-based detection"
RateSignal(pattern) ==
    IF pattern.requests_per_minute > RateLimitThresholds.requests_per_minute
    THEN Step(300, <<Reason("High request rate", pattern.requests_per_minute)>>)
    ELSE Step(0, <<>>)

\* mutant of UserAgentSignal: the reason appended whatever the score
UserAgentSignalAlwaysReason(pattern) ==
    Step(AnalyzeUserAgents(pattern.user_agents) * 3,
         <<Reason("Bot-like user agent detected", 0)>>)

\* _analyze_single_ip, "User agent analysis": the score is always added, the
\* reason only for a positive score
UserAgentSignal(pattern) ==
    LET bot_ua_score == AnalyzeUserAgents(pattern.user_agents)
    IN  Step(bot_ua_score * 3,
             IF bot_ua_score > 0
             THEN <<Reason("Bot-like user agent detected", 0)>>
             ELSE <<>>)

\* _analyze_single_ip, "Path diversity analysis"
PathDiversitySignal(pattern) ==
    IF pattern.unique_paths = 1 /\ pattern.request_count > 10
    THEN Step(200, <<Reason("Low path diversity with high volume", 0)>>)
    ELSE Step(0, <<>>)

\* mutant of ErrorRateSignal: an error rate on the threshold counts as high
ErrorRateSignalAtThreshold(pattern) ==
    IF pattern.error_rate >= RateLimitThresholds.error_rate_threshold
    THEN Step(200, <<Reason("High error rate", pattern.error_rate)>>)
    ELSE Step(0, <<>>)

\* _analyze_single_ip, "Error rate analysis"
ErrorRateSignal(pattern) ==
    IF pattern.error_rate > RateLimitThresholds.error_rate_threshold
    THEN Step(200, <<Reason("High error rate", pattern.error_rate)>>)
    ELSE Step(0, <<>>)

\* mutant of SuspiciousPathSignal: the signal held back until the count passes
\* suspicious_path_threshold
SuspiciousPathSignalAboveThreshold(pattern) ==
    IF pattern.suspicious_requests > RateLimitThresholds.suspicious_path_threshold
    THEN Step(400, <<Reason("Suspicious path requests", pattern.suspicious_requests)>>)
    ELSE Step(0, <<>>)

\* _analyze_single_ip, "Suspicious path analysis"
SuspiciousPathSignal(pattern) ==
    IF pattern.suspicious_requests > 0
    THEN Step(400, <<Reason("Suspicious path requests", pattern.suspicious_requests)>>)
    ELSE Step(0, <<>>)

\* _analyze_single_ip, "Response time analysis"
TimingSignal(pattern) ==
    IF IsTimingSuspicious(pattern)
    THEN Step(100, <<Reason("Suspicious timing patterns", 0)>>)
    ELSE Step(0, <<>>)

\* mutant of IsBot: the threshold itself counts as a bot
IsBotAtThreshold(confidence) == confidence >= 500

\* is_bot = confidence > 0.5
IsBot(confidence) == confidence > 500

\* mutant of ClampConfidence: the sum divided by the total weight 1.6
ClampConfidenceRenormalized(confidence) == (confidence * 1000) \div 1600

\* confidence=min(1.0, confidence) in the returned result
ClampConfidence(confidence) == Min(1000, confidence)

\* detectors.py _analyze_single_ip: the six blocks run in this order on the
\* local confidence and reasons.  is_bot and the risk level are computed from
\* the unclamped sum; only the reported confidence is clamped.
AnalyzeSingleIp(pattern) ==
    LET s1 == RateSignal(pattern)
        s2 == UserAgentSignal(pattern)
        s3 == PathDiversitySignal(pattern)
        s4 == ErrorRateSignal(pattern)
        s5 == SuspiciousPathSignal(pattern)
        s6 == TimingSignal(pattern)
        confidence == 0 + s1.add + s2.add + s3.add + s4.add + s5.add + s6.add
        reasons    == s1.reasons \o s2.reasons \o s3.reasons \o s4.reasons
                      \o s5.reasons \o s6.reasons
        risk_level == CalculateRiskLevel(confidence, pattern)
    IN  [ip                 |-> pattern.ip,
         is_bot             |-> IsBot(confidence),
         confidence         |-> ClampConfidence(confidence),
         reasons            |-> reasons,
         risk_level         |-> risk_level,
         recommended_action |-> RecommendAction(risk_level, pattern)]

\* the dict literal risk_order of export_blocklist
RiskOrder == [LOW |-> 0, MEDIUM |-> 1, HIGH |-> 2, CRITICAL |-> 3]

\* mutant of BlocklistOf: the minimum level itself left out
BlocklistOfAbove(results, min_level) ==
    LET keep(result) == RiskOrder[result.risk_level] > min_level
        kept == SelectSeq(results, keep)
    IN  [i \in 1..Len(kept) |-> kept[i].ip]

\* the list comprehension of export_blocklist, once min_level is known
BlocklistOf(results, min_level) ==
    LET keep(result) == RiskOrder[result.risk_level] >= min_level
        kept == SelectSeq(results, keep)
    IN  [i \in 1..Len(kept) |-> kept[i].ip]

----------------------------------------------------------------------------
(* Inputs *)

\* the source addresses of the inputs, "10.0.0.1" to "10.0.0.5"
IPs == <<
    <<"1", "0", ".", "0", ".", "0", ".", "1">>,
    <<"1", "0", ".", "0", ".", "0", ".", "2">>,
    <<"1", "0", ".", "0", ".", "0", ".", "3">>,
    <<"1", "0", ".", "0", ".", "0", ".", "4">>,
    <<"1", "0", ".", "0", ".", "0", ".", "5">> >>

UaMozilla   == <<"M", "o", "z", "i", "l", "l", "a", "/", "5">>
UaCurl      == <<"c", "u", "r", "l", "/", "7">>
UaWgetLower == <<"w", "g", "e", "t", "/", "1">>
UaGooglebot == <<"G", "o", "o", "g", "l", "e", "b", "o", "t">>
UaScanBot   == <<"S", "c", "a", "n", "B", "o", "t">>
UaHeadless  == <<"H", "e", "a", "d", "l", "e", "s", "s", "C", "h", "r", "o", "m", "e">>
UaPython    == <<"p", "y", "t", "h", "o", "n", "-", "r", "e", "q", "u", "e", "s", "t", "s", "/", "2">>
UaLibcurl   == <<"l", "i", "b", "c", "u", "r", "l", "/", "7">>

\* user agents a pattern may list: one per signature score, one that matches
\* two signatures (ScanBot), one that holds a literal away from the anchor
\* (libcurl/7), one no signature matches
UserAgentPool == <<UaMozilla, UaCurl, UaWgetLower, UaGooglebot, UaScanBot,
                   UaHeadless, UaPython, UaLibcurl>>

RECURSIVE SortedSeq(_)
SortedSeq(S) ==
    IF S = {} THEN <<>>
    ELSE LET m == CHOOSE x \in S : \A y \in S : x <= y
         IN  <<m>> \o SortedSeq(S \ {m})

\* every list of at most n distinct user agents of the pool (in pool order)
UserAgentLists(pool, n) ==
    {[k \in 1..Cardinality(S) |-> pool[SortedSeq(S)[k]]] :
        S \in {X \in SUBSET (1..Len(pool)) : Cardinality(X) <= n}}

\* A TrafficPattern as the aggregation builds it: error_rate is derived from
\* the counts, and no count exceeds request_count.
TrafficPattern(ip, request_count, requests_per_minute, user_agents, unique_paths, error_count, suspicious_requests, avg_response_time) ==
    [ip                  |-> ip,
     request_count       |-> request_count,
     requests_per_minute |-> requests_per_minute,
     user_agents         |-> user_agents,
     unique_paths        |-> unique_paths,
     error_count         |-> error_count,
     error_rate          |-> (100 * error_count) \div request_count,
     suspicious_requests |-> suspicious_requests,
     avg_response_time   |-> avg_response_time]

\* the patterns of the single-IP runs: every field on both sides of every
\* comparison the detector makes
DetailPatterns ==
    {TrafficPattern(IPs[1], n, rpm, uas, paths, errs, susp, art) :
        n \in {10, 11}, rpm \in {5, 6, 10, 11, 20, 21},
        uas \in UserAgentLists(UserAgentPool, MaxUserAgents),
        paths \in {1, 2}, errs \in {0, 3, 4}, susp \in {0, 1, 5, 6},
        art \in {99, 100}}

\* the patterns of the two-IP runs: each of the six signals on and off
PairPatterns ==
    {TrafficPattern(IPs[1], 11, rpm, <<ua>>, paths, errs, susp, art) :
        rpm \in {6, 11}, ua \in {UaMozilla, UaCurl}, paths \in {1, 2},
        errs \in {0, 4}, susp \in {0, 1}, art \in {99, 100}}

\* the dicts of two patterns
PairMaps ==
    {<<[p EXCEPT !.ip = IPs[1]], [q EXCEPT !.ip = IPs[2]]>> :
        p \in PairPatterns, q \in PairPatterns}

\* the patterns of the multi-IP runs: two of each risk level
BatchPatterns ==
    {TrafficPattern(IPs[1], 11, rpm, <<ua>>, 2, 0, susp, 100) :
        rpm \in {6, 11}, ua \in {UaMozilla, UaCurl}, susp \in {0, 1}}

\* the dicts of 1..MaxIPs patterns, keyed by distinct IPs in insertion order
BatchMaps ==
    UNION {{[i \in 1..n |-> [f[i] EXCEPT !.ip = IPs[i]]] :
               f \in [1..n -> BatchPatterns]} : n \in 1..MaxIPs}

\* arguments of export_blocklist: the four level names, the configured
\* default of OUTPUT_CONFIG (lower case) and an unknown name
RiskLevelArguments == {"LOW", "MEDIUM", "HIGH", "CRITICAL", "high", "URGENT"}

\* the date parts of the timestamps handed to _parse_timestamp, each with the
\* character that joins it to the time: "01/Jul/2025:", "1/jul/2025:", "01/07/2025:", "2025-07-01 ", "2025-07-01T", "31/Feb/2025:"
TimestampDates ==
    {<<"0", "1", "/", "J", "u", "l", "/", "2", "0", "2", "5", ":">>,
     <<"1", "/", "j", "u", "l", "/", "2", "0", "2", "5", ":">>,
     <<"0", "1", "/", "0", "7", "/", "2", "0", "2", "5", ":">>,
     <<"2", "0", "2", "5", "-", "0", "7", "-", "0", "1", " ">>,
     <<"2", "0", "2", "5", "-", "0", "7", "-", "0", "1", "T">>,
     <<"3", "1", "/", "F", "e", "b", "/", "2", "0", "2", "5", ":">>}

\* the time parts: "06:00:00", "6:0:5", "24:00:00"
TimestampTimes ==
    {<<"0", "6", ":", "0", "0", ":", "0", "0">>,
     <<"6", ":", "0", ":", "5">>,
     <<"2", "4", ":", "0", "0", ":", "0", "0">>}

\* what follows the time: nothing, an offset with and without a blank before
\* it, a blank, an offset followed by a blank, a zone name, Z, an offset with
\* a colon, an offset of 24 hours
TimestampSuffixes ==
    {<<>>,
     <<" ", "+", "0", "0", "0", "0">>,
     <<"+", "0", "0", "0", "0">>,
     <<" ", "-", "0", "5", "3", "0">>,
     <<" ">>,
     <<" ", "+", "0", "0", "0", "0", " ">>,
     <<" ", "U", "T", "C">>,
     <<" ", "Z">>,
     <<" ", "+", "0", "5", ":", "3", "0">>,
     <<" ", "+", "2", "4", "0", "0">>}

\* the arguments of _parse_timestamp
TimestampStrings ==
    {d \o t \o z : d \in TimestampDates, t \in TimestampTimes, z \in TimestampSuffixes}

----------------------------------------------------------------------------
(* Timestamps: datetime.strptime and parsers.py _parse_timestamp *)

\* the decimal digits and their values
DigitValue ==
    "0" :> 0 @@ "1" :> 1 @@ "2" :> 2 @@ "3" :> 3 @@ "4" :> 4 @@
    "5" :> 5 @@ "6" :> 6 @@ "7" :> 7 @@ "8" :> 8 @@ "9" :> 9

IsDigit(c) == c \in DOMAIN DigitValue

\* the characters str.strip() and the regex class \s take for blanks (a
\* timestamp or a line of the inputs holds no other white space)
IsSpace(c) == c \in {" ", "\t"}

\* int(text) for a run of decimal digits
RECURSIVE ToInt(_)
ToInt(text) ==
    IF text = <<>> THEN 0
    ELSE 10 * ToInt(SubSeq(text, 1, Len(text) - 1)) + DigitValue[text[Len(text)]]

\* the month abbreviations %b accepts (C locale), compared without case
MonthAbbreviations ==
    << <<"j", "a", "n">>, <<"f", "e", "b">>, <<"m", "a", "r">>, <<"a", "p", "r">>,
       <<"m", "a", "y">>, <<"j", "u", "n">>, <<"j", "u", "l">>, <<"a", "u", "g">>,
       <<"s", "e", "p">>, <<"o", "c", "t">>, <<"n", "o", "v">>, <<"d", "e", "c">> >>

IsLeapYear(year) == (year % 4 = 0 /\ year % 100 # 0) \/ year % 400 = 0

DaysInMonth(year, month) ==
    IF month = 2 THEN (IF IsLeapYear(year) THEN 29 ELSE 28)
    ELSE IF month \in {4, 6, 9, 11} THEN 30 ELSE 31

\* The one- and two-digit numbers each numeric directive of strptime accepts:
\*   %d  3[0-1]|[1-2]\d|0[1-9]|[1-9]| [1-9]     %m  1[0-2]|0[1-9]|[1-9]
\*   %H  2[0-3]|[0-1]\d|\d     %M  [0-5]\d|\d     %S  6[0-1]|[0-5]\d|\d
NumericDirectives ==
    "%d" :> [two |-> 1..31, one |-> 1..9] @@
    "%m" :> [two |-> 1..12, one |-> 1..9] @@
    "%H" :> [two |-> 0..23, one |-> 0..9] @@
    "%M" :> [two |-> 0..59, one |-> 0..9] @@
    "%S" :> [two |-> 0..61, one |-> 0..9]

\* The list formats of _parse_timestamp.  A format is the sequence of its
\* directives and literal characters; " " is a run of white space (\s+).
TimestampFormats == <<
    <<"%d", "/", "%b", "/", "%Y", ":", "%H", ":", "%M", ":", "%S", " ", "%z">>,
    <<"%d", "/", "%b", "/", "%Y", ":", "%H", ":", "%M", ":", "%S">>,
    <<"%d", "/", "%m", "/", "%Y", ":", "%H", ":", "%M", ":", "%S">>,
    <<"%Y", "-", "%m", "-", "%d", " ", "%H", ":", "%M", ":", "%S">>,
    <<"%d", "/", "%b", "/", "%Y", ":", "%H", ":", "%M", ":", "%S", " ",
      "+", "0", "0", "0", "0">> >>

\* the two formats of main_analyzer.py parse_log_line, in its order
MainTimestampFormats == <<
    <<"%d", "/", "%m", "/", "%Y", ":", "%H", ":", "%M", ":", "%S">>,
    <<"%d", "/", "%b", "/", "%Y", ":", "%H", ":", "%M", ":", "%S">> >>

\* length of the run of white space of s that starts at position p
WhitespaceRun(s, p) ==
    SetMax({n \in 0..(Len(s) + 1 - p) : \A j \in 0..(n - 1) : IsSpace(s[p + j])})

\* What one element of a format consumes of s at position p: the number of
\* characters (0 when it does not match there) and the value read.  The regex
\* of a numeric directive prefers two digits; every numeric directive of the
\* formats is followed by a literal that is no digit or ends the format, so
\* the preferred alternative is the only one that can lead to a match.
Scan(s, p, directive) ==
    LET Is(k, chars) == p + k <= Len(s) /\ s[p + k] \in chars
        DigitAt(k) == p + k <= Len(s) /\ IsDigit(s[p + k])
        v(k) == DigitValue[s[p + k]]
        no == [len |-> 0, value |-> 0]
    IN  IF p > Len(s) THEN no
        ELSE IF directive \in DOMAIN NumericDirectives
        THEN IF DigitAt(0) /\ DigitAt(1)
                  /\ 10 * v(0) + v(1) \in NumericDirectives[directive].two
             THEN [len |-> 2, value |-> 10 * v(0) + v(1)]
             ELSE IF DigitAt(0) /\ v(0) \in NumericDirectives[directive].one
             THEN [len |-> 1, value |-> v(0)]
             ELSE IF directive = "%d" /\ s[p] = " " /\ DigitAt(1) /\ v(1) # 0
             THEN [len |-> 2, value |-> v(1)]
             ELSE no
        ELSE IF directive = "%Y"
        THEN IF DigitAt(0) /\ DigitAt(1) /\ DigitAt(2) /\ DigitAt(3)
             THEN [len |-> 4, value |-> ToInt(SubSeq(s, p, p + 3))]
             ELSE no
        ELSE IF directive = "%b"
        THEN IF \E m \in 1..12 : OccursAtIgnoreCase(s, MonthAbbreviations[m], p)
             THEN [len |-> 3,
                   value |-> CHOOSE m \in 1..12 :
                                 OccursAtIgnoreCase(s, MonthAbbreviations[m], p)]
             ELSE no
        ELSE IF directive = "%z"
        \* [+-]\d\d:?[0-5]\d or Z; the value is the offset in minutes.  The
        \* optional seconds of an offset are carried by none of the inputs.
        THEN IF s[p] = "Z" THEN [len |-> 1, value |-> 0]
             ELSE IF Is(0, {"+", "-"}) /\ DigitAt(1) /\ DigitAt(2)
             THEN LET c == IF Is(3, {":"}) THEN 1 ELSE 0
                  IN  IF Is(3 + c, {"0", "1", "2", "3", "4", "5"}) /\ DigitAt(4 + c)
                      THEN [len |-> 5 + c,
                            value |-> (IF s[p] = "-" THEN -1 ELSE 1)
                                      * (60 * (10 * v(1) + v(2))
                                         + 10 * v(3 + c) + v(4 + c))]
                      ELSE no
             ELSE no
        ELSE IF directive = " "
        THEN [len |-> WhitespaceRun(s, p), value |-> 0]
        ELSE IF s[p] = directive THEN [len |-> 1, value |-> 0]
        ELSE no

\* the fields strptime starts from (all of them are set by every format,
\* but for %z)
NoFields ==
    [x \in {"%d", "%m", "%Y", "%H", "%M", "%S", "%z"} |->
        IF x \in {"%d", "%m"} THEN 1 ELSE IF x = "%Y" THEN 1900 ELSE 0]

\* the regex match of the format, element k onward, against s from position
\* p: <<found>> with the fields read, <<>> when the format does not match or
\* data remains unconverted
RECURSIVE StrptimeFrom(_, _, _, _, _)
RECURSIVE StrptimeStep(_, _, _, _, _, _)
StrptimeFrom(s, p, format, k, found) ==
    IF k > Len(format)
    THEN IF p = Len(s) + 1 THEN <<found>> ELSE <<>>
    ELSE StrptimeStep(s, p, format, k, found, Scan(s, p, format[k]))

\* the match goes on after element k of the format has consumed r of s
StrptimeStep(s, p, format, k, found, r) ==
    IF r.len = 0 THEN <<>>
    ELSE StrptimeFrom(s, p + r.len, format, k + 1,
                      IF format[k] = "%b"
                      THEN [found EXCEPT !["%m"] = r.value]
                      ELSE IF format[k] \in DOMAIN found
                      THEN [found EXCEPT ![format[k]] = r.value]
                      ELSE found)

\* a datetime: naive (tz_aware = FALSE, utcoffset 0) or aware, utcoffset in minutes
Datetime(year, month, day, hour, minute, second, tz_aware, utcoffset) ==
    [year |-> year, month |-> month, day |-> day, hour |-> hour,
     minute |-> minute, second |-> second, tz_aware |-> tz_aware,
     utcoffset |-> utcoffset]

\* the datetime of the fields f read under the format, <<>> for the
\* ValueError of a day the month does not have, of second 60 or 61, of year
\* 0, of an offset of 24 hours or more
DatetimeOfFields(f, format) ==
    IF /\ f["%Y"] >= 1
       /\ f["%d"] <= DaysInMonth(f["%Y"], f["%m"])
       /\ f["%S"] <= 59
       /\ f["%z"] > -1440 /\ f["%z"] < 1440
    THEN <<Datetime(f["%Y"], f["%m"], f["%d"], f["%H"], f["%M"], f["%S"],
                    "%z" \in Range(format), f["%z"])>>
    ELSE <<>>

\* the datetime of a match m of the format, <<>> when there is none
DatetimeOfMatch(m, format) ==
    IF m = <<>> THEN <<>> ELSE DatetimeOfFields(m[1], format)

\* datetime.strptime(s, format): <<datetime>>, or <<>> for ValueError
Strptime(s, format) ==
    DatetimeOfMatch(StrptimeFrom(s, 1, format, 1, NoFields), format)

\* the first of two results that is not None
FirstNotNone(first, second) == IF first # <<>> THEN first ELSE second

\* the loop "for fmt in formats: try: return strptime(...) except ValueError:
\* continue" from format i on: the result of the first format that parses s,
\* <<>> when the loop runs out
RECURSIVE FirstFormatFrom(_, _, _)
FirstFormatFrom(s, formats, i) ==
    IF i > Len(formats) THEN <<>>
    ELSE FirstNotNone(Strptime(s, formats[i]), FirstFormatFrom(s, formats, i + 1))

FirstFormat(s, formats) == FirstFormatFrom(s, formats, 1)

\* re.sub(r'[+-]\d{4}$', '', s)
StripOffset(s) ==
    IF /\ Len(s) >= 5
       /\ s[Len(s) - 4] \in {"+", "-"}
       /\ \A j \in 0..3 : IsDigit(s[Len(s) - j])
    THEN SubSeq(s, 1, Len(s) - 5)
    ELSE s

\* str.strip()
StripWhitespace(s) ==
    LET solid == {i \in 1..Len(s) : ~IsSpace(s[i])}
    IN  IF solid = {} THEN <<>>
        ELSE SubSeq(s, CHOOSE i \in solid : \A j \in solid : i <= j, SetMax(solid))

\* mutant of ParseTimestamp: no second pass over the formats
ParseTimestampOnePass(timestamp_str) ==
    FirstFormat(timestamp_str, TimestampFormats)

\* parsers.py _parse_timestamp: <<datetime>>, or <<>> for None
ParseTimestamp(timestamp_str) ==
    FirstNotNone(FirstFormat(timestamp_str, TimestampFormats),
                 IF "+" \in Range(timestamp_str) \/ "-" \in Range(timestamp_str)
                 THEN FirstFormat(StripWhitespace(StripOffset(timestamp_str)),
                                  TimestampFormats)
                 ELSE <<>>)

\* main_analyzer.py parse_log_line, "Parse timestamp": the nested try blocks
MainParseTimestamp(timestamp_str) == FirstFormat(timestamp_str, MainTimestampFormats)

----------------------------------------------------------------------------
(* Log lines and the parser *)

\* A log line by its structure: which grammar it is written in, and the
\* text of the fields that grammar carries.  The shapes and the regexes of
\* LogParser:
\*   "custom"    IP - COUNTRY - [TS] "METHOD PATH HTTP/1.1" STATUS SIZE "REFERER" "UA" TIME
\*               matched by the custom regex alone (four tokens precede "[")
\*   "combined"  IP - - [TS] "METHOD PATH HTTP/1.1" STATUS SIZE "REFERER" "UA"
\*               matched by the combined regex and, the common regex being a
\*               prefix of it and not anchored at the end, by the common regex
\*   "common"    IP - - [TS] "METHOD PATH HTTP/1.1" STATUS SIZE
\*               matched by the common regex alone
\*   "malformed" a truncated line no regex matches
\*   "blank"     white space only
\*   "comment"   a line whose first visible character is "#"
LogLine(shape, ip, timestamp, user_agent) ==
    [shape |-> shape, ip |-> ip, timestamp |-> timestamp, method |-> "GET",
     path |-> <<"/">>, status_code |-> <<"2", "0", "0">>,
     response_size |-> <<"5", "1", "2">>, user_agent |-> user_agent,
     country |-> "US", response_time |-> <<"5", "0">>]

\* the timestamps of the lines of a pipeline run: "01/Jul/2025:06:00:00" and
\* the same half a minute later
TsApache   == <<"0", "1", "/", "J", "u", "l", "/", "2", "0", "2", "5", ":", "0", "6", ":", "0", "0", ":", "0", "0">>
TsApache30 == <<"0", "1", "/", "J", "u", "l", "/", "2", "0", "2", "5", ":", "0", "6", ":", "0", "0", ":", "3", "0">>

\* further timestamps of log lines: "01/Jul/2025:06:00:00 +0000",
\* "01/07/2025:06:00:00", "2025-07-01 06:00:00" and, in no format of the
\* parser, "2025-07-01T06:00:00"
TsApacheOffset == <<"0", "1", "/", "J", "u", "l", "/", "2", "0", "2", "5", ":", "0", "6", ":", "0", "0", ":", "0", "0", " ", "+", "0", "0", "0", "0">>
TsNumeric      == <<"0", "1", "/", "0", "7", "/", "2", "0", "2", "5", ":", "0", "6", ":", "0", "0", ":", "0", "0">>
TsIso          == <<"2", "0", "2", "5", "-", "0", "7", "-", "0", "1", " ", "0", "6", ":", "0", "0", ":", "0", "0">>
TsUnknown      == <<"2", "0", "2", "5", "-", "0", "7", "-", "0", "1", "T", "0", "6", ":", "0", "0", ":", "0", "0">>

\* the lines a log may hold, for two IPs: custom and combined lines with a
\* user agent, common lines (no user-agent field) at two times, and lines
\* that no grammar accepts
LogLines ==
    {LogLine("custom", IPs[i], TsApache, UaCurl) : i \in 1..2}
    \cup {LogLine("combined", IPs[i], TsApache, ua) : i \in 1..2, ua \in {UaMozilla, UaCurl}}
    \cup {LogLine("common", IPs[i], ts, <<>>) : i \in 1..2, ts \in {TsApache, TsApache30}}
    \cup {LogLine("malformed", IPs[i], TsApache, <<>>) : i \in 1..2}
    \cup {[LogLine("custom", IPs[i], TsApache30, UaCurl)
              EXCEPT !.path = <<"/", "a", "d", "m", "i", "n">>,
                     !.status_code = <<"4", "0", "4">>] : i \in 1..2}
    \cup {[LogLine("combined", IPs[1], TsApache, UaMozilla)
              EXCEPT !.path = <<"/", "a">>,
                     !.status_code = <<"5", "0", "0">>]}


\* s.split(sep) for a separator of one character
RECURSIVE Split(_, _)
Split(s, sep) ==
    IF sep \notin Range(s) THEN <<s>>
    ELSE LET k == CHOOSE i \in 1..Len(s) :
                      s[i] = sep /\ \A j \in 1..(i - 1) : s[j] # sep
         IN  <<SubSeq(s, 1, k - 1)>> \o Split(SubSeq(s, k + 1, Len(s)), sep)

HexDigits ==
    {"0", "1", "2", "3", "4", "5", "6", "7", "8", "9",
     "a", "b", "c", "d", "e", "f", "A", "B", "C", "D", "E", "F"}

\* ipaddress.IPv4Address(s): four decimal octets of one to three digits, none
\* with a leading zero, none above 255
IsIPv4(s) ==
    LET octets == Split(s, ".")
    IN  /\ Len(octets) = 4
        /\ \A i \in 1..4 :
               /\ Len(octets[i]) \in 1..3
               /\ \A j \in 1..Len(octets[i]) : IsDigit(octets[i][j])
               /\ (Len(octets[i]) > 1 => octets[i][1] # "0")
               /\ ToInt(octets[i]) <= 255

\* ipaddress.IPv6Address(s), for text without an embedded IPv4 address or a
\* scope id: eight groups of one to four hex digits, or fewer with one "::"
IsIPv6(s) ==
    LET parts == Split(s, ":")
        n == Len(parts)
        skips == {i \in 2..(n - 1) : parts[i] = <<>>}
        IsHextet(h) == Len(h) \in 1..4 /\ \A j \in 1..Len(h) : h[j] \in HexDigits
    IN  /\ n >= 3
        /\ n <= 9
        /\ Cardinality(skips) <= 1
        /\ IF skips = {}
           THEN n = 8 /\ \A i \in 1..n : IsHextet(parts[i])
           ELSE LET k == CHOOSE i \in skips : TRUE
                    hi == (k - 1) - (IF parts[1] = <<>> THEN 1 ELSE 0)
                    lo == (n - k) - (IF parts[n] = <<>> THEN 1 ELSE 0)
                IN  /\ (parts[1] = <<>> => hi = 0)
                    /\ (parts[n] = <<>> => lo = 0)
                    /\ 8 - (hi + lo) >= 1
                    /\ \A i \in 1..hi : IsHextet(parts[i])
                    /\ \A i \in (n - lo + 1)..n : IsHextet(parts[i])

\* validation.py is_valid_ip: ipaddress.ip_address(ip) does not raise
IsValidIp(ip) == IsIPv4(ip) \/ IsIPv6(ip)

\* validation.py is_valid_status_code
IsValidStatusCode(status_code) == status_code >= 100 /\ status_code <= 599

\* a file object: whether the path exists, the lines of the file (after the
\* undecodable bytes, if any, are dropped), the number of the line at whose
\* read the operating system reports an error (0: none) and the number of the
\* line that holds bytes that are not UTF-8 (0: none)
LogFile(exists, lines, io_error_at, undecodable_at) ==
    [exists |-> exists, lines |-> lines, io_error_at |-> io_error_at,
     undecodable_at |-> undecodable_at]

\* what the first field of a line may hold: "10.0.0.1", "::1", "999.1.1.1"
\* and "bogus"
LineAddresses ==
    {IPs[1], <<":", ":", "1">>,
     <<"9", "9", "9", ".", "1", ".", "1", ".", "1">>, <<"b", "o", "g", "u", "s">>}

\* what the status field of a line may hold: "200", "599", "600" and "99"
LineStatusCodes == {<<"2", "0", "0">>, <<"5", "9", "9">>, <<"6", "0", "0">>, <<"9", "9">>}

LineTimestamps == {TsApache, TsApacheOffset, TsNumeric, TsIso, TsUnknown}

\* the lines handed to the parsers one at a time: every grammar with every
\* address, timestamp and status code, and the three kinds of line that hold
\* no request
ParserLines ==
    {[LogLine(shape, ip, ts, IF shape = "common" THEN <<>> ELSE UaCurl)
         EXCEPT !.status_code = status] :
        shape \in {"custom", "combined", "common"}, ip \in LineAddresses,
        ts \in LineTimestamps, status \in LineStatusCodes}
    \cup {LogLine(shape, IPs[1], TsApache, <<>>) :
             shape \in {"malformed", "blank", "comment"}}

\* the files of one line
OneLineFiles == {LogFile(TRUE, <<line>>, 0, 0) : line \in ParserLines}

\* the lines of the files read whole: a custom line both parsers accept, a
\* combined line, a custom line with an unknown timestamp format, a truncated
\* line, an empty line and a comment
FileLines ==
    {LogLine("custom", IPs[1], TsNumeric, UaCurl),
     LogLine("combined", IPs[2], TsApache, UaMozilla),
     LogLine("custom", IPs[1], TsUnknown, UaCurl),
     LogLine("malformed", IPs[1], TsApache, <<>>),
     LogLine("blank", IPs[1], TsApache, <<>>),
     LogLine("comment", IPs[1], TsApache, <<>>)}

\* the files of at most MaxLines lines: sound, with an I/O error at one line,
\* with undecodable bytes in one line; and a path that does not exist
LogFiles ==
    UNION {{LogFile(TRUE, lines, fault[1], fault[2]) :
               lines \in [1..n -> FileLines],
               fault \in {<<0, 0>>} \cup {<<k, 0>> : k \in 1..n}
                                    \cup {<<0, k>> : k \in 1..n}} :
           n \in 0..MaxLines}
    \cup {LogFile(FALSE, <<>>, 0, 0)}

LogEntry(ip, country, timestamp, method, path, status_code, response_size, user_agent, response_time) ==
    [ip |-> ip, country |-> country, timestamp |-> timestamp, method |-> method,
     path |-> path, status_code |-> status_code, response_size |-> response_size,
     user_agent |-> user_agent, response_time |-> response_time]

\* int(match.group(n)) if match.group(n) != '-' else 0
ResponseSize(text) == IF text = <<"-">> THEN 0 ELSE ToInt(text)

\* "if not timestamp: return None", then the entry built from the fields
EntryAt(timestamp, ip, country, method, path, status_code, response_size, user_agent, response_time) ==
    IF timestamp = <<>> THEN <<>>
    ELSE <<LogEntry(ip, country, timestamp[1], method, path, status_code,
                    response_size, user_agent, response_time)>>

\* parsers.py _parse_custom_format: <<entry>> on success, <<>> for None
ParseCustomFormat(line) ==
    IF line.shape = "custom"
    THEN EntryAt(ParseTimestamp(line.timestamp), line.ip, line.country,
                 line.method, line.path, ToInt(line.status_code),
                 ResponseSize(line.response_size), line.user_agent,
                 ToInt(line.response_time))
    ELSE <<>>

\* parsers.py _parse_combined_format
ParseCombinedFormat(line) ==
    IF line.shape = "combined"
    THEN EntryAt(ParseTimestamp(line.timestamp), line.ip, "--", line.method,
                 line.path, ToInt(line.status_code),
                 ResponseSize(line.response_size), line.user_agent, 0)
    ELSE <<>>

\* parsers.py _parse_common_format: the entry's user_agent is the empty string
ParseCommonFormat(line) ==
    IF line.shape \in {"combined", "common"}
    THEN EntryAt(ParseTimestamp(line.timestamp), line.ip, "--", line.method,
                 line.path, ToInt(line.status_code),
                 ResponseSize(line.response_size), <<>>, 0)
    ELSE <<>>

\* mutant of ParseLogLineOf: the common grammar tried before the combined one
ParseLogLineOfCommonFirst(line) ==
    IF line.shape \in {"blank", "comment"} THEN <<>>
    ELSE FirstNotNone(ParseCustomFormat(line),
                      FirstNotNone(ParseCommonFormat(line),
                                   ParseCombinedFormat(line)))

\* parsers.py parse_log_line: nothing for a blank line or a comment, then
\* custom, then combined, then common
ParseLogLineOf(line) ==
    IF line.shape \in {"blank", "comment"} THEN <<>>
    ELSE FirstNotNone(ParseCustomFormat(line),
                      FirstNotNone(ParseCombinedFormat(line),
                                   ParseCommonFormat(line)))

\* main_analyzer.py parse_log_line: one regex, which a line of the custom
\* shape matches, and two timestamp formats
MainParseLogLine(line) ==
    IF line.shape = "custom"
    THEN EntryAt(MainParseTimestamp(line.timestamp), line.ip, line.country,
                 line.method, line.path, ToInt(line.status_code),
                 ToInt(line.response_size), line.user_agent,
                 ToInt(line.response_time))
    ELSE <<>>

----------------------------------------------------------------------------
(* Traffic aggregation *)

SuspiciousPaths ==
    {<<"/", ".", "e", "n", "v">>,
     <<"/", "a", "d", "m", "i", "n">>,
     <<"/", "w", "p", "-", "a", "d", "m", "i", "n">>,
     <<"/", "p", "h", "p", "m", "y", "a", "d", "m", "i", "n">>,
     <<"/", "c", "o", "n", "f", "i", "g">>,
     <<"/", "b", "a", "c", "k", "u", "p">>,
     <<"/", "d", "a", "t", "a", "b", "a", "s", "e">>,
     <<"/", "x", "m", "l", "r", "p", "c", ".", "p", "h", "p">>,
     <<"/", "w", "p", "-", "c", "o", "n", "f", "i", "g", ".", "p", "h", "p">>,
     <<"/", "s", "e", "r", "v", "e", "r", "-", "s", "t", "a", "t", "u", "s">>,
     <<"/", "s", "e", "r", "v", "e", "r", "-", "i", "n", "f", "o">>,
     <<"/", ".", "g", "i", "t">>,
     <<"/", ".", "s", "v", "n">>,
     <<"/", "a", "p", "i", "/", "v", "1", "/", "a", "d", "m", "i", "n">>,
     <<"/", "a", "p", "i", "/", "a", "d", "m", "i", "n">>,
     <<"/", "a", "d", "m", "i", "n", "i", "s", "t", "r", "a", "t", "o", "r">>,
     <<"/", "e", "t", "c", "/", "p", "a", "s", "s", "w", "d">>,
     <<"/", "p", "r", "o", "c", "/", "v", "e", "r", "s", "i", "o", "n">>,
     <<"/", "w", "i", "n", "d", "o", "w", "s", "/", "s", "y", "s", "t", "e", "m", "3", "2">>,
     <<"/", ".", ".", "/", ".", ".", "/", ".", ".", "/">>,
     <<"/", "c", "g", "i", "-", "b", "i", "n", "/">>,
     <<"/", "s", "h", "e", "l", "l", ".", "p", "h", "p">>,
     <<"/", "u", "p", "l", "o", "a", "d", ".", "p", "h", "p">>}

\* exact substring containment of a suspicious path in the request path
IsSuspiciousPath(path) ==
    \E sus \in SuspiciousPaths : \E k \in 1..Len(path) : OccursAt(path, sus, k)

\* the distinct elements of s, in order of first occurrence
RECURSIVE DistinctInOrder(_)
DistinctInOrder(s) ==
    IF s = <<>> THEN <<>>
    ELSE LET init == DistinctInOrder(SubSeq(s, 1, Len(s) - 1))
             last == s[Len(s)]
         IN  IF last \in Range(init) THEN init ELSE Append(init, last)

RECURSIVE SumSeq(_)
SumSeq(s) == IF s = <<>> THEN 0 ELSE Head(s) + SumSeq(Tail(s))

\* days in the years 1 to y
DaysThroughYear(y) == 365 * y + (y \div 4) - (y \div 100) + (y \div 400)

\* days from 31/Dec/1999 to the day of a datetime (timestamps are counted
\* from the year 2000 to keep the seconds of a log within 32 bits)
DayNumber(dt) ==
    LET before == {m \in 1..12 : m < dt.month}
        MonthDays[S \in SUBSET (1..12)] ==
            IF S = {} THEN 0
            ELSE LET m == CHOOSE x \in S : TRUE
                 IN  DaysInMonth(dt.year, m) + MonthDays[S \ {m}]
    IN  DaysThroughYear(dt.year - 1) - DaysThroughYear(1999)
        + MonthDays[before] + dt.day

\* a point in time in seconds, an aware datetime brought to UTC
Seconds(dt) ==
    ((DayNumber(dt) * 24 + dt.hour) * 60 + dt.minute - dt.utcoffset) * 60 + dt.second

\* time covered by a list of entries, in seconds
TimeSpan(entries) ==
    LET ts == {Seconds(entries[i].timestamp) : i \in 1..Len(entries)}
    IN  SetMax(ts) - (CHOOSE x \in ts : \A y \in ts : x <= y)

\* mutant of AggregateIp: paths, errors and suspicious requests counted over
\* the whole log
AggregateIpWholeLog(entries, ip, unspecified_rate) ==
    LET SameIp(e) == e.ip = ip
        own   == SelectSeq(entries, SameIp)
        IsError(e) == e.status_code >= 400
        IsSusp(e)  == IsSuspiciousPath(e.path)
        span  == IF TimeSpan(own) > 0 THEN TimeSpan(own) ELSE TimeSpan(entries)
    IN  TrafficPattern(
            ip,
            Len(own),
            IF span > 0 THEN (Len(own) * 60) \div span ELSE unspecified_rate,
            DistinctInOrder([i \in 1..Len(own) |-> own[i].user_agent]),
            Cardinality({entries[i].path : i \in 1..Len(entries)}),
            Len(SelectSeq(entries, IsError)),
            Len(SelectSeq(entries, IsSusp)),
            SumSeq([i \in 1..Len(own) |-> own[i].response_time]) \div Len(own))

\* The pattern of one IP: grouping of all entries by IP.  The rate divides by
\* the span of the IP's own requests, or by the span of the whole log when
\* that is zero; when the whole log spans no time either the rate is
\* whatever the caller of this operator passes as unspecified_rate.
AggregateIp(entries, ip, unspecified_rate) ==
    LET SameIp(e) == e.ip = ip
        own   == SelectSeq(entries, SameIp)
        IsError(e) == e.status_code >= 400
        IsSusp(e)  == IsSuspiciousPath(e.path)
        span  == IF TimeSpan(own) > 0 THEN TimeSpan(own) ELSE TimeSpan(entries)
    IN  TrafficPattern(
            ip,
            Len(own),
            IF span > 0 THEN (Len(own) * 60) \div span ELSE unspecified_rate,
            DistinctInOrder([i \in 1..Len(own) |-> own[i].user_agent]),
            Cardinality({own[i].path : i \in 1..Len(own)}),
            Len(SelectSeq(own, IsError)),
            Len(SelectSeq(own, IsSusp)),
            SumSeq([i \in 1..Len(own) |-> own[i].response_time]) \div Len(own))

\* one pattern per distinct IP, in order of first appearance
Aggregate(entries, unspecified_rate) ==
    LET ips == DistinctInOrder([i \in 1..Len(entries) |-> entries[i].ip])
    IN  [k \in 1..Len(ips) |-> AggregateIp(entries, ips[k], unspecified_rate)]

----------------------------------------------------------------------------
(* The run *)

TypeOK ==
    /\ phase \in {"start", "parsing", "patterns", "detected", "exported", "failed",
                  "reading", "parsed", "main_reading", "main_parsed",
                  "main_analyzed", "looping", "returned", "validated", "scoring",
                  "scanned", "counted", "ranked", "saved", "reported",
                  "sanitized", "normalized", "reports_saved", "visualizing",
                  "displaying"}
    /\ Len(log_entries) <= MaxEntries
    /\ Len(detection_results) \in {0, Len(traffic_patterns)}
    /\ min_risk_level \in RiskLevelArguments \cup {"none"}
    /\ error \in {"none", "KeyError", "Exception", "OSError", "UnicodeDecodeError",
                  "InvalidConfiguration"}
    /\ Len(timestamp_value) <= 1
    /\ Len(returned) <= Len(log_file.lines)
    /\ handle \in {"none", "open", "closed"}
    /\ Len(previous_entries) <= 1
    /\ exit_status \in {-1, 0, 1}
    /\ file_index = Len(reports)
    /\ file_index <= Len(log_files)

\* no file is read and no timestamp is parsed on its own
ParserIdle ==
    /\ timestamp_text = <<>>
    /\ timestamp_value = <<>>
    /\ log_file = LogFile(FALSE, <<>>, 0, 0)
    /\ returned = <<>>
    /\ handle = "none"
    /\ previous_entries = <<>>

\* no command-line entry point is running
RunIdle ==
    /\ exit_status = -1
    /\ stages = <<>>
    /\ log_files = <<>>
    /\ file_index = 0
    /\ reports = <<>>

\* a configuration value: an int or a float, kept in hundredths, or a str
Number(kind, hundredths) == [kind |-> kind, value |-> hundredths]

\* no configuration is checked
NoConfig == [rate_limits |-> <<>>, ddos_detection |-> <<>>]

\* the configurations checked: the shipped one with every setting replaced by
\* values inside and outside its documented range, and configurations that
\* lack a section or a key
Configs ==
    {[rate_limits |->
         [requests_per_minute |-> rpm,
          requests_per_hour |-> rph,
          error_rate_threshold |-> ert,
          suspicious_path_threshold |-> Number("float", 10),
          bot_confidence_threshold |-> bct],
      ddos_detection |->
         [time_window_minutes |-> twm,
          min_requests_threshold |-> mrt,
          min_ip_diversity |-> mid,
          min_error_rate |-> mer]] :
        rpm \in {Number("int", 1000), Number("int", 0), Number("float", -50),
                 Number("str", 0)},
        rph \in {Number("int", 30000), Number("int", -100)},
        ert \in {Number("float", 30), Number("int", 0), Number("int", 100),
                 Number("float", -10), Number("float", 150)},
        bct \in {Number("float", 50), Number("float", 150), Number("float", -10)},
        twm \in {Number("int", 500), Number("int", 0), Number("int", -500),
                 Number("float", 500)},
        mrt \in {Number("int", 100000), Number("int", 0), Number("int", -100)},
        mid \in {Number("float", 10), Number("float", 150)},
        mer \in {Number("float", 50), Number("float", -50)}}
    \cup {NoConfig,
          [rate_limits |-> [requests_per_hour |-> Number("int", -100)],
           ddos_detection |-> [min_error_rate |-> Number("float", 50)]],
          [rate_limits |-> [requests_per_minute |-> Number("int", 0)],
           ddos_detection |-> <<>>],
          [rate_limits |-> <<>>,
           ddos_detection |-> [time_window_minutes |-> Number("int", 500)]]}

\* validation.py validate_analysis_config: the list of error messages; the
\* configuration is valid when the list is empty.  A section that is absent
\* or empty holds no key.
ValidateAnalysisConfigOf(cfg) ==
    LET rate_config == cfg.rate_limits
        ddos_config == cfg.ddos_detection
        IsNumber(x) == x.kind \in {"int", "float"}
    IN  (IF "requests_per_minute" \in DOMAIN rate_config
            /\ (~IsNumber(rate_config.requests_per_minute)
                \/ rate_config.requests_per_minute.value <= 0)
         THEN <<"requests_per_minute must be positive number">> ELSE <<>>)
        \o
        (IF "error_rate_threshold" \in DOMAIN rate_config
            /\ (~IsNumber(rate_config.error_rate_threshold)
                \/ ~(0 <= rate_config.error_rate_threshold.value
                      /\ rate_config.error_rate_threshold.value <= 100))
         THEN <<"error_rate_threshold must be between 0 and 1">> ELSE <<>>)
        \o
        (IF "time_window_minutes" \in DOMAIN ddos_config
            /\ (ddos_config.time_window_minutes.kind # "int"
                \/ ddos_config.time_window_minutes.value <= 0)
         THEN <<"time_window_minutes must be positive integer">> ELSE <<>>)

\* no configuration is checked
ConfigIdle ==
    /\ config = NoConfig
    /\ config_errors = <<>>

\* config.py DDOS_DETECTION: min_requests_threshold, min_ip_diversity and
\* min_error_rate (percent), time_window_minutes
DdosDetection ==
    [time_window_minutes |-> 5,
     min_requests_threshold |-> 1000,
     min_ip_diversity |-> 10,
     min_error_rate |-> 50]

\* the statistics of one window: its requests, the distinct IPs among them
\* and the requests answered with an error
Window(request_count, unique_ips, error_count) ==
    [request_count |-> request_count, unique_ips |-> unique_ips,
     error_count |-> error_count]

\* the windows scanned: volumes below, at and above the threshold, with a
\* share of distinct IPs below, at and above the floor and an error rate
\* below, at and above the minimum
Windows ==
    {Window(n, ips, errors) :
        n \in {400, 999, 1000, 1200},
        ips \in {12, 100, 119, 120},
        errors \in {1, 2, 3}}

\* the error count of a window input: just under half, half rounded up, and
\* six tenths of its requests
ErrorCount(w) ==
    CASE w.error_count = 1 -> (w.request_count - 1) \div 2
      [] w.error_count = 2 -> (w.request_count + 1) \div 2
      [] w.error_count = 3 -> (6 * w.request_count) \div 10

WindowStreams ==
    UNION {[1..n -> {Window(w.request_count, w.unique_ips, ErrorCount(w)) : w \in Windows}] :
           n \in 1..MaxWindows}

\* mutant of IsDdosWindow: min_ip_diversity read as a minimum the window has
\* to reach
IsDdosWindowDiverse(w) ==
    /\ w.request_count >= DdosDetection.min_requests_threshold
    /\ 100 * w.error_count >= DdosDetection.min_error_rate * w.request_count
    /\ 100 * w.unique_ips >= DdosDetection.min_ip_diversity * w.request_count

\* The alert condition of the window analyzer, which is not in the
\* repository's sources: enough requests, an error rate of at least
\* min_error_rate and a fraction of distinct IPs below the min_ip_diversity
\* floor (the fractions compared without division).
IsDdosWindow(w) ==
    /\ w.request_count >= DdosDetection.min_requests_threshold
    /\ 100 * w.error_count >= DdosDetection.min_error_rate * w.request_count
    /\ 100 * w.unique_ips < DdosDetection.min_ip_diversity * w.request_count

\* models/analysis_result.py DDosAlert for window k of the stream; severity
\* and top_ips, which no threshold reads, are left out
DDosAlert(k, w) ==
    [window |-> k,
     request_count |-> w.request_count,
     unique_ips |-> w.unique_ips,
     error_count |-> w.error_count,
     duration_minutes |-> DdosDetection.time_window_minutes]

\* the alerts of the windows of a stream, in time order
RECURSIVE ScanWindowsFrom(_, _)
ScanWindowsFrom(stream, k) ==
    IF k > Len(stream) THEN <<>>
    ELSE (IF IsDdosWindow(stream[k]) THEN <<DDosAlert(k, stream[k])>> ELSE <<>>)
         \o ScanWindowsFrom(stream, k + 1)

\* no window is scanned
DdosIdle ==
    /\ windows = <<>>
    /\ ddos_alerts = <<>>

\* the characters of code 32 to 126, in code order (the grave accent by its
\* code point)
PrintableAscii == <<
    " ", "!", "\"", "#", "$", "%", "&", "'", "(", ")", "*", "+",
    ",", "-", ".", "/", "0", "1", "2", "3", "4", "5", "6", "7",
    "8", "9", ":", ";", "<", "=", ">", "?", "@", "A", "B", "C",
    "D", "E", "F", "G", "H", "I", "J", "K", "L", "M", "N", "O",
    "P", "Q", "R", "S", "T", "U", "V", "W", "X", "Y", "Z", "[",
    "\\", "]", "^", "_", "U+0060", "a", "b", "c", "d", "e", "f", "g",
    "h", "i", "j", "k", "l", "m", "n", "o", "p", "q", "r", "s",
    "t", "u", "v", "w", "x", "y", "z", "{", "|", "}", "~"
>>

\* the character a single decoded byte stands for: ASCII, a control
\* character by its code, or U+FFFD for a byte that is no UTF-8 on its own
\* (urllib.parse.unquote decodes with errors='replace')
Chr(code) ==
    IF code >= 32 /\ code <= 126 THEN PrintableAscii[code - 31]
    ELSE IF code < 128 THEN <<"control", code>>
    ELSE "U+FFFD"

\* int(c, 16) of one hexadecimal digit
HexValue(c) ==
    IF c \in DOMAIN DigitValue THEN DigitValue[c]
    ELSE CASE LowerChar(c) = "a" -> 10 [] LowerChar(c) = "b" -> 11
           [] LowerChar(c) = "c" -> 12 [] LowerChar(c) = "d" -> 13
           [] LowerChar(c) = "e" -> 14 [] LowerChar(c) = "f" -> 15

\* urllib.parse.unquote from position i on: a '%' followed by two
\* hexadecimal digits becomes the character of that code, anything else stays
RECURSIVE UnquoteFrom(_, _)
UnquoteFrom(s, i) ==
    IF i > Len(s) THEN <<>>
    ELSE IF /\ s[i] = "%"
            /\ i + 2 <= Len(s)
            /\ s[i + 1] \in HexDigits
            /\ s[i + 2] \in HexDigits
         THEN <<Chr(16 * HexValue(s[i + 1]) + HexValue(s[i + 2]))>> \o UnquoteFrom(s, i + 3)
         ELSE <<s[i]>> \o UnquoteFrom(s, i + 1)

\* re.sub(r'/+', '/', path): a slash that follows a slash is dropped
CollapseSlashes(path) ==
    LET kept == {i \in 1..Len(path) : ~(path[i] = "/" /\ i > 1 /\ path[i - 1] = "/")}
        nth(k) == CHOOSE i \in kept : Cardinality({j \in kept : j <= i}) = k
    IN  [k \in 1..Cardinality(kept) |-> path[nth(k)]]

\* str.lower() on ASCII text
Lower(s) == [i \in 1..Len(s) |-> LowerChar(s[i])]

\* validation.py normalize_path
NormalizePathOf(path) ==
    IF path = <<>> THEN <<"/">>
    ELSE LET cut == Split(Split(path, "?")[1], "#")[1]
             rooted == IF cut # <<>> /\ cut[1] = "/" THEN cut ELSE <<"/">> \o cut
         IN  Lower(UnquoteFrom(CollapseSlashes(rooted), 1))

\* the text 'Unknown'
Unknown == <<"U", "n", "k", "n", "o", "w", "n">>

\* re.sub(r'[<>"\']', '', user_agent)
RemoveHarmful(user_agent) ==
    SelectSeq(user_agent, LAMBDA c : c \notin {"<", ">", "\"", "'"})

\* validation.py sanitize_user_agent
SanitizeUserAgentOf(user_agent) ==
    IF user_agent = <<>> \/ user_agent = <<"-">> THEN Unknown
    ELSE IF Len(RemoveHarmful(user_agent)) > 500
         THEN StripWhitespace(SubSeq(RemoveHarmful(user_agent), 1, 500) \o <<".", ".", ".">>)
         ELSE StripWhitespace(RemoveHarmful(user_agent))

\* all strings of up to n characters of an alphabet
StringsUpTo(alphabet, n) == UNION {[1..k -> alphabet] : k \in 0..n}

\* the user agents sanitized: every short text of a letter, a blank, a quote
\* and a dash, and texts around the cap of 500 characters, bare, after a
\* blank and before a quote
UserAgentTexts ==
    StringsUpTo({"a", " ", "\"", "-"}, MaxTextLen)
    \cup UNION {{[i \in 1..n |-> "a"],
                 <<" ">> \o [i \in 1..n |-> "a"],
                 [i \in 1..n |-> "a"] \o <<"\"">>} : n \in {499, 500, 501}}

\* the pieces paths are made of: characters and percent-escapes, one of them
\* escaped twice
PathPieces ==
    {<<"/">>, <<"x">>, <<"X">>, <<"?">>, <<"#">>,
     <<"%", "2", "F">>, <<"%", "3", "F">>, <<"%", "2", "3">>, <<"%", "4", "1">>,
     <<"%", "2", "5", "2", "F">>}

RECURSIVE Concat(_)
Concat(pieces) ==
    IF pieces = <<>> THEN <<>> ELSE Head(pieces) \o Concat(Tail(pieces))

\* the paths normalized
PathTexts == {Concat(pieces) : pieces \in StringsUpTo(PathPieces, MaxPathPieces)}

\* date.toordinal(): the days from 1 January of year 1, that day being 1
RECURSIVE DaysBeforeMonth(_, _)
DaysBeforeMonth(year, month) ==
    IF month = 1 THEN 0
    ELSE DaysBeforeMonth(year, month - 1) + DaysInMonth(year, month - 1)

ToOrdinal(year, month, day) ==
    365 * (year - 1) + (year - 1) \div 4 - (year - 1) \div 100 + (year - 1) \div 400
    + DaysBeforeMonth(year, month) + day

\* the instant two datetimes of one kind are compared by: days, and seconds
\* of the day; an aware datetime less its utcoffset (kept in minutes)
Instant(d) ==
    LET seconds == 3600 * d.hour + 60 * d.minute + d.second
                   - (IF d.tz_aware THEN 60 * d.utcoffset ELSE 0)
        shifted == seconds + 86400
    IN  <<ToOrdinal(d.year, d.month, d.day) - 1 + shifted \div 86400, shifted % 86400>>

\* datetime.__lt__/__gt__ between datetimes of one kind
DatetimeBefore(a, b) ==
    \/ Instant(a)[1] < Instant(b)[1]
    \/ Instant(a)[1] = Instant(b)[1] /\ Instant(a)[2] < Instant(b)[2]

\* min() and max() of a list of datetimes raise TypeError ("can't compare
\* offset-naive and offset-aware datetimes") when the list holds both kinds
IsComparable(timestamps) ==
    \A i, j \in 1..Len(timestamps) : timestamps[i].tz_aware = timestamps[j].tz_aware

\* min(timestamps): the first of the earliest
MinOf(timestamps) ==
    timestamps[CHOOSE i \in 1..Len(timestamps) :
                  /\ \A j \in 1..Len(timestamps) : ~DatetimeBefore(timestamps[j], timestamps[i])
                  /\ \A j \in 1..(i - 1) : DatetimeBefore(timestamps[i], timestamps[j])]

\* max(timestamps): the first of the latest
MaxOf(timestamps) ==
    timestamps[CHOOSE i \in 1..Len(timestamps) :
                  /\ \A j \in 1..Len(timestamps) : ~DatetimeBefore(timestamps[i], timestamps[j])
                  /\ \A j \in 1..(i - 1) : DatetimeBefore(timestamps[j], timestamps[i])]

\* parsers.py get_log_statistics once parse_log_file has returned entries or
\* raised: the stats dict by its 'total_lines', 'date_range' (<<>> for None)
\* and 'error' ("none" when the key is not set).  Whatever is raised inside
\* the try block ends as stats['error'].  The counters and the sample
\* entries, which come after the date range, are left out.
LogStatistics(entries, raised) ==
    IF raised # "none"
    THEN [total_lines |-> 0, date_range |-> <<>>, error |-> raised]
    ELSE IF entries = <<>>
    THEN [total_lines |-> 0, date_range |-> <<>>, error |-> "none"]
    ELSE IF ~IsComparable([k \in 1..Len(entries) |-> entries[k].timestamp])
    THEN [total_lines |-> Len(entries), date_range |-> <<>>, error |-> "TypeError"]
    ELSE [total_lines |-> Len(entries),
          date_range |-> <<[start |-> MinOf([k \in 1..Len(entries) |-> entries[k].timestamp]),
                            end |-> MaxOf([k \in 1..Len(entries) |-> entries[k].timestamp])]>>,
          error |-> "none"]

\* the lines of the files get_log_statistics is run on: custom lines of one
\* IP whose timestamps are in the formats of the parser, with and without a
\* UTC offset, or in none
StatisticsLines ==
    {LogLine("custom", IPs[1], ts, UaCurl) :
        ts \in {TsApacheOffset, TsApache, TsApache30, TsNumeric, TsUnknown}}

StatisticsFiles ==
    UNION {{LogFile(TRUE, lines, 0, 0) : lines \in [1..n -> StatisticsLines]} :
           n \in 0..MaxLines}
    \cup {LogFile(FALSE, <<>>, 0, 0)}

\* a file '<stem>_<stamp>.<ext>' of the output directory, or a directory
\* '<stem>_<stamp>' (ext "dir"), with the code that wrote it; stamps are the
\* seconds of datetime.now().strftime("%Y%m%d_%H%M%S"), counted from the
\* second save_analysis_reports runs in (1), 0 for an earlier run
File(stem, stamp, ext, writer) ==
    [stem |-> stem, stamp |-> stamp, ext |-> ext, writer |-> writer]

\* the glob patterns of ProfessionalVisualizer._cleanup_old_files, in order;
\* stem "*" for a pattern that is '*.<ext>'
CleanupPatterns == <<
    [stem |-> "*", ext |-> "png"],
    [stem |-> "*", ext |-> "csv"],
    [stem |-> "*", ext |-> "json"],
    [stem |-> "*", ext |-> "txt"],
    [stem |-> "traffic_dashboard", ext |-> "png"],
    [stem |-> "traffic_analysis", ext |-> "csv"],
    [stem |-> "traffic_report", ext |-> "json"],
    [stem |-> "blocklist", ext |-> "txt"],
    [stem |-> "summary", ext |-> "txt"],
    [stem |-> "traffic_analysis", ext |-> "json"],
    [stem |-> "traffic_distribution", ext |-> "png"],
    [stem |-> "status_distribution", ext |-> "png"],
    [stem |-> "hourly_traffic", ext |-> "png"],
    [stem |-> "top_sources", ext |-> "png"],
    [stem |-> "analysis", ext |-> "txt"],
    [stem |-> "bot_report", ext |-> "txt"],
    [stem |-> "threat", ext |-> "txt"]
>>

\* glob.glob(os.path.join(output_dir, pattern)) lists the file
GlobMatches(pattern, file) ==
    /\ pattern.ext = file.ext
    /\ pattern.stem = "*" \/ pattern.stem = file.stem

\* _cleanup_old_files: what is left of the directory once every file a
\* pattern lists and every 'charts_*' directory is removed (a removal that
\* raises OSError is skipped by the code; the files here are removable)
CleanedUp(files) ==
    {f \in files :
        /\ \A k \in 1..Len(CleanupPatterns) : ~GlobMatches(CleanupPatterns[k], f)
        /\ ~(f.ext = "dir" /\ f.stem = "charts")}

\* open(name, 'w'): the file of that name is created or replaced
Written(files, written) ==
    {f \in files : \A w \in written :
                      ~(f.stem = w.stem /\ f.stamp = w.stamp /\ f.ext = w.ext)}
    \cup written

\* what earlier runs and the user may have left in the output directory
OldFiles ==
    {File("traffic_analysis", 0, "json", "earlier run"),
     File("summary", 0, "txt", "earlier run"),
     File("traffic_dashboard", 0, "png", "earlier run"),
     File("charts", 0, "dir", "earlier run"),
     File("index", 0, "html", "user")}

\* the rank of a risk level in main()'s sort key
RiskRank(risk_level) ==
    CASE risk_level = "CRITICAL" -> 4
      [] risk_level = "HIGH" -> 3
      [] risk_level = "MEDIUM" -> 2
      [] risk_level = "LOW" -> 1
      [] OTHER -> 0

\* a > b for two key tuples of one length, as Python compares tuples
TupleGreater(a, b) ==
    \E k \in 1..Len(a) : a[k] > b[k] /\ \A j \in 1..(k - 1) : a[j] = b[j]

\* list.sort(key=..., reverse=True) and sorted(..., key=..., reverse=True),
\* keys[i] being the key of list[i]: greater keys first, entries of equal
\* keys in the order they had (the sort is stable, also when reversed)
SortedReverse(list, keys) ==
    LET n == Len(list)
        position(i) ==
            1 + Cardinality({j \in 1..n :
                                \/ TupleGreater(keys[j], keys[i])
                                \/ keys[j] = keys[i] /\ j < i})
    IN  [p \in 1..n |-> list[CHOOSE i \in 1..n : position(i) = p]]

\* list[:n]
Head_n(list, n) == SubSeq(list, 1, IF Len(list) < n THEN Len(list) ELSE n)

\* one value of main()'s ip_counts dict with its key; the user_agents and
\* paths sets, which the scoring does not read, are left out
IpCount(ip, count, bot_activity, suspicious_activity) ==
    [ip |-> ip, count |-> count, bot_activity |-> bot_activity,
     suspicious_activity |-> suspicious_activity]

\* main(): the ip_analysis entry of one IP; confidence_score is in percent
IpAnalysis(data) ==
    LET by_count == IF data.count > 100 THEN 30
                    ELSE IF data.count > 50 THEN 20 ELSE 0
        by_bot == IF data.bot_activity > 0 THEN 40 ELSE 0
        by_suspicious == IF data.suspicious_activity > 0 THEN 40 ELSE 0
        confidence == 0 + by_count + by_bot + by_suspicious
    IN  [ip |-> data.ip,
         request_count |-> data.count,
         risk_level |-> IF data.suspicious_activity > 0 THEN "CRITICAL"
                        ELSE IF data.bot_activity > 0 THEN "HIGH"
                        ELSE IF data.count > 100 THEN "HIGH"
                        ELSE IF data.count > 50 THEN "MEDIUM"
                        ELSE "LOW",
         confidence_score |-> IF confidence < 100 THEN confidence ELSE 100,
         bot_activity |-> data.bot_activity,
         suspicious_activity |-> data.suspicious_activity]

\* main(): the key of ip_analysis.sort, (risk rank, confidence_score)
MainSortKey(x) == <<RiskRank(x.risk_level), x.confidence_score>>

\* generate_bot_report: the key of sorted(), x.confidence
ConfidenceKey(x) == <<x.confidence>>

\* main(): ip_analysis, one entry per IP of ip_counts, before the sort
IpAnalysisList(counts) == [k \in 1..Len(counts) |-> IpAnalysis(counts[k])]

\* generate_bot_report: the list comprehension that keeps the bots
BotResults(results) == SelectSeq(results, LAMBDA r : r.is_bot)

\* generate_bot_report: one element of 'top_bots'
TopBot(bot) ==
    [ip |-> bot.ip, confidence |-> bot.confidence, risk_level |-> bot.risk_level,
     reasons |-> Head_n(bot.reasons, 3)]

\* the traffic one IP can show to main(): up to, just over and far over the
\* two request counts that score, with or without bot user agents and
\* suspicious paths
IpTraffic ==
    {IpCount(<<>>, count, bot_activity, suspicious_activity) :
        count \in {1, 51, 101}, bot_activity \in {0, 1},
        suspicious_activity \in {0, 1}}

\* the k-th address of a ranking
ThreatIp(k) == <<10, 0, 0, k>>

\* ip_counts dicts of up to MaxThreatIPs addresses: the first and the last
\* address with any traffic, the addresses between them with the same
IpCountDicts ==
    UNION {{[k \in 1..n |-> [(IF k = 1 THEN first
                              ELSE IF k = n THEN last ELSE between)
                             EXCEPT !.ip = ThreatIp(k)]] :
               first \in IpTraffic, between \in IpTraffic, last \in IpTraffic} :
           n \in 1..MaxThreatIPs}

\* the patterns handed to a detector whose results are reported: a request
\* rate under and over the limit, a human or a bot user agent, and no, one
\* or more than five suspicious requests
ReportPatterns ==
    {TrafficPattern(IPs[1], 11, rpm, <<ua>>, 2, 0, susp, 100) :
        rpm \in {6, 11}, ua \in {UaMozilla, UaCurl}, susp \in {0, 1, 6}}

ReportMaps ==
    UNION {{[i \in 1..n |-> [f[i] EXCEPT !.ip = IPs[i]]] :
               f \in [1..n -> ReportPatterns]} : n \in 1..MaxIPs}

\* no threat list is built
ThreatIdle ==
    /\ ip_counts = <<>>
    /\ top_threats = <<>>
    /\ summary_threats = <<>>
    /\ top_bots = <<>>

\* no reporting stage runs
ValidationIdle ==
    /\ argument = <<>>
    /\ return_value = <<>>

\* no report file is written
OutputIdle ==
    /\ output_dir = {}
    /\ announced = {}
    /\ visualizer = <<>>

LaterIdle ==
    /\ ThreatIdle
    /\ previous_results = <<>>
    /\ ValidationIdle
    /\ stats = <<>>
    /\ OutputIdle

\* no stage beside parsing and detection runs
ExtraIdle ==
    /\ ConfigIdle
    /\ DdosIdle
    /\ LaterIdle

\* nothing is handed to the detector
DetectorIdle ==
    /\ log_entries = <<>>
    /\ traffic_patterns = <<>>
    /\ detection_results = <<>>
    /\ min_risk_level = "none"
    /\ blocklist = <<>>

Init ==
    /\ phase = "start"
    /\ log_entries = <<>>
    /\ traffic_patterns = <<>>
    /\ detection_results = <<>>
    /\ min_risk_level = "none"
    /\ blocklist = <<>>
    /\ error = "none"
    /\ ParserIdle
    /\ RunIdle
    /\ ExtraIdle

\* a caller builds the detector's input itself: one pattern
SubmitPattern ==
    /\ phase = "start"
    /\ \E p \in DetailPatterns : traffic_patterns' = <<p>>
    /\ phase' = "patterns"
    /\ UNCHANGED <<log_entries, detection_results, min_risk_level, blocklist, error>>
    /\ UNCHANGED <<parserVars, runVars>>
    /\ UNCHANGED extraVars

\* parsers.py parse_log_file, one iteration of the loop over the lines
ParseLogLine ==
    /\ phase \in {"start", "parsing"}
    /\ Len(log_entries) < MaxEntries
    /\ \E line \in LogLines : log_entries' = log_entries \o ParseLogLineOf(line)
    /\ phase' = "parsing"
    /\ UNCHANGED <<traffic_patterns, detection_results, min_risk_level, blocklist, error>>
    /\ UNCHANGED <<parserVars, runVars>>
    /\ UNCHANGED extraVars

\* the aggregation pass over the parsed entries
AggregateTraffic ==
    /\ phase = "parsing"
    /\ log_entries # <<>>
    /\ \E r \in {5, 11} : traffic_patterns' = Aggregate(log_entries, r)
    /\ phase' = "patterns"
    /\ UNCHANGED <<log_entries, detection_results, min_risk_level, blocklist, error>>
    /\ UNCHANGED <<parserVars, runVars>>
    /\ UNCHANGED extraVars

\* detectors.py detect_bots
\* mutant of DetectBots: the patterns are taken out of the input dict as they
\* are analysed
DetectBotsConsuming ==
    /\ phase = "patterns"
    /\ detection_results' =
          [i \in 1..Len(traffic_patterns) |-> AnalyzeSingleIp(traffic_patterns[i])]
    /\ traffic_patterns' = <<>>
    /\ phase' = "detected"
    /\ UNCHANGED <<log_entries, min_risk_level, blocklist, error>>
    /\ UNCHANGED <<parserVars, runVars>>
    /\ UNCHANGED extraVars

DetectBots ==
    /\ phase = "patterns"
    /\ detection_results' =
          [i \in 1..Len(traffic_patterns) |-> AnalyzeSingleIp(traffic_patterns[i])]
    /\ phase' = "detected"
    /\ UNCHANGED <<log_entries, traffic_patterns, min_risk_level, blocklist, error>>
    /\ UNCHANGED <<parserVars, runVars>>
    /\ UNCHANGED extraVars

\* mutant of ExportBlocklist: risk_order.get(min_risk_level, 2), an unknown
\* name falling back to the default level HIGH
ExportBlocklistDefaulting(level) ==
    /\ phase \in {"detected", "exported", "failed"}
    /\ min_risk_level' = level
    /\ blocklist' = BlocklistOf(detection_results,
                                IF level \in DOMAIN RiskOrder THEN RiskOrder[level] ELSE 2)
    /\ error' = "none"
    /\ phase' = "exported"
    /\ UNCHANGED <<log_entries, traffic_patterns, detection_results>>
    /\ UNCHANGED <<parserVars, runVars>>
    /\ UNCHANGED extraVars

\* detectors.py export_blocklist: risk_order[min_risk_level] raises KeyError
\* for a name that is no key of risk_order, before any list is built
ExportBlocklist(level) ==
    /\ phase \in {"detected", "exported", "failed"}
    /\ min_risk_level' = level
    /\ IF level \in DOMAIN RiskOrder
       THEN /\ blocklist' = BlocklistOf(detection_results, RiskOrder[level])
            /\ error' = "none"
            /\ phase' = "exported"
       ELSE /\ error' = "KeyError"
            /\ phase' = "failed"
            /\ UNCHANGED blocklist
    /\ UNCHANGED <<log_entries, traffic_patterns, detection_results>>
    /\ UNCHANGED <<parserVars, runVars>>
    /\ UNCHANGED extraVars

Next ==
    \/ SubmitPattern
    \/ ParseLogLine
    \/ AggregateTraffic
    \/ DetectBots

\* single-IP runs in full detail, and runs of the pipeline from log lines
Spec == Init /\ [][Next]_vars

InitBatch ==
    /\ phase = "patterns"
    /\ log_entries = <<>>
    /\ traffic_patterns \in BatchMaps
    /\ detection_results = <<>>
    /\ min_risk_level = "none"
    /\ blocklist = <<>>
    /\ error = "none"
    /\ ParserIdle
    /\ RunIdle
    /\ ExtraIdle

NextBatch ==
    \/ DetectBots
    \/ \E level \in RiskLevelArguments : ExportBlocklist(level)

\* multi-IP runs: detection, then any sequence of blocklist exports
SpecBatch == InitBatch /\ [][NextBatch]_vars

\* detect_bots called once more, on the dict the first call was given and by
\* the same BotDetector
DetectBotsAgain ==
    /\ phase = "detected"
    /\ previous_results = <<>>
    /\ previous_results' = <<detection_results>>
    /\ detection_results' =
          [i \in 1..Len(traffic_patterns) |-> AnalyzeSingleIp(traffic_patterns[i])]
    /\ UNCHANGED <<phase, error, log_entries, traffic_patterns, min_risk_level, blocklist>>
    /\ UNCHANGED <<parserVars, runVars, configVars, ddosVars, threatVars, validationVars, stats>>
    /\ UNCHANGED outputVars

NextDetectTwice ==
    \/ DetectBots
    \/ DetectBotsAgain

\* two detect_bots calls of one detector on one dict of patterns
SpecDetectTwice == InitBatch /\ [][NextDetectTwice]_vars

InitPair ==
    /\ phase = "patterns"
    /\ log_entries = <<>>
    /\ traffic_patterns \in PairMaps
    /\ detection_results = <<>>
    /\ min_risk_level = "none"
    /\ blocklist = <<>>
    /\ error = "none"
    /\ ParserIdle
    /\ RunIdle
    /\ ExtraIdle

\* two-IP runs: one detect_bots call over two patterns
SpecPair == InitPair /\ [][DetectBots]_vars

InitTimestamp ==
    /\ phase = "start"
    /\ error = "none"
    /\ DetectorIdle
    /\ timestamp_text \in TimestampStrings
    /\ timestamp_value = <<>>
    /\ log_file = LogFile(FALSE, <<>>, 0, 0)
    /\ returned = <<>>
    /\ handle = "none"
    /\ previous_entries = <<>>
    /\ RunIdle
    /\ ExtraIdle

\* parsers.py _parse_timestamp, called on timestamp_text: every ValueError is
\* caught inside, the call always returns
ParseTimestampCall ==
    /\ phase = "start"
    /\ timestamp_text # <<>>
    /\ timestamp_value' = ParseTimestamp(timestamp_text)
    /\ phase' = "returned"
    /\ error' = "none"
    /\ UNCHANGED <<timestamp_text, log_file, returned, handle, previous_entries>>
    /\ UNCHANGED <<detectorVars, runVars>>
    /\ UNCHANGED extraVars

\* main_analyzer.py parse_log_line, lines 103 to 112, on timestamp_text
MainParseTimestampCall ==
    /\ phase = "start"
    /\ timestamp_text # <<>>
    /\ timestamp_value' = MainParseTimestamp(timestamp_text)
    /\ phase' = "returned"
    /\ error' = "none"
    /\ UNCHANGED <<timestamp_text, log_file, returned, handle, previous_entries>>
    /\ UNCHANGED <<detectorVars, runVars>>
    /\ UNCHANGED extraVars

NextTimestamp ==
    \/ ParseTimestampCall
    \/ MainParseTimestampCall

\* one timestamp string handed to the timestamp parsing of either parser
SpecTimestamp == InitTimestamp /\ [][NextTimestamp]_vars

\* mutant of OpenLogFile: the position reached by the previous call persists
OpenLogFileResuming ==
    /\ \/ phase = "start" /\ UNCHANGED previous_entries
       \/ /\ phase = "parsed"
          /\ previous_entries = <<>>
          /\ previous_entries' = <<log_entries>>
    /\ log_entries' = <<>>
    /\ UNCHANGED returned
    /\ IF log_file.exists
       THEN handle' = "open" /\ phase' = "reading" /\ error' = "none"
       ELSE handle' = handle /\ phase' = "failed" /\ error' = "Exception"
    /\ UNCHANGED <<timestamp_text, timestamp_value, log_file>>
    /\ UNCHANGED <<traffic_patterns, detection_results, min_risk_level, blocklist>>
    /\ UNCHANGED runVars
    /\ UNCHANGED extraVars

\* parsers.py parse_log_file, a call (the first on the file, or a second one
\* after the first has returned): entries = [] and open(); a missing file
\* raises inside the try block and is re-raised as Exception
OpenLogFile ==
    /\ \/ phase = "start" /\ UNCHANGED previous_entries
       \/ /\ phase = "parsed"
          /\ previous_entries = <<>>
          /\ previous_entries' = <<log_entries>>
    /\ log_entries' = <<>>
    /\ returned' = <<>>
    /\ IF log_file.exists
       THEN handle' = "open" /\ phase' = "reading" /\ error' = "none"
       ELSE handle' = handle /\ phase' = "failed" /\ error' = "Exception"
    /\ UNCHANGED <<timestamp_text, timestamp_value, log_file>>
    /\ UNCHANGED <<traffic_patterns, detection_results, min_risk_level, blocklist>>
    /\ UNCHANGED runVars
    /\ UNCHANGED extraVars

\* mutant of ReadLogLine: a line that is not blank and yields no entry raises
ReadLogLineRaising ==
    /\ phase = "reading"
    /\ Len(returned) < Len(log_file.lines)
    /\ LET n == Len(returned) + 1
           line == log_file.lines[n]
       IN  IF log_file.io_error_at = n
              \/ (line.shape # "blank" /\ ParseLogLineOf(line) = <<>>)
           THEN /\ handle' = "closed"
                /\ phase' = "failed"
                /\ error' = "Exception"
                /\ log_entries' = <<>>
                /\ UNCHANGED returned
           ELSE /\ returned' = Append(returned, ParseLogLineOf(line))
                /\ log_entries' = log_entries \o ParseLogLineOf(line)
                /\ UNCHANGED <<handle, phase, error>>
    /\ UNCHANGED <<timestamp_text, timestamp_value, log_file, previous_entries>>
    /\ UNCHANGED <<traffic_patterns, detection_results, min_risk_level, blocklist>>
    /\ UNCHANGED runVars
    /\ UNCHANGED extraVars

\* mutant of ReadLogLine: the file is closed by a call at the end of the
\* function, not by a with block
ReadLogLineLeaking ==
    /\ phase = "reading"
    /\ Len(returned) < Len(log_file.lines)
    /\ LET n == Len(returned) + 1
           line == log_file.lines[n]
       IN  IF log_file.io_error_at = n
           THEN /\ UNCHANGED handle
                /\ phase' = "failed"
                /\ error' = "Exception"
                /\ log_entries' = <<>>
                /\ UNCHANGED returned
           ELSE /\ returned' = Append(returned, ParseLogLineOf(line))
                /\ log_entries' = log_entries \o ParseLogLineOf(line)
                /\ UNCHANGED <<handle, phase, error>>
    /\ UNCHANGED <<timestamp_text, timestamp_value, log_file, previous_entries>>
    /\ UNCHANGED <<traffic_patterns, detection_results, min_risk_level, blocklist>>
    /\ UNCHANGED runVars
    /\ UNCHANGED extraVars

\* parsers.py parse_log_file, one iteration of "for line_num, line in
\* enumerate(file, 1)": the read of the next line, then parse_log_line.  An
\* error of the read leaves the with block, which closes the file, and is
\* re-raised as Exception; nothing is returned.  Undecodable bytes are dropped
\* by errors='ignore'.
ReadLogLine ==
    /\ phase = "reading"
    /\ Len(returned) < Len(log_file.lines)
    /\ LET n == Len(returned) + 1
           line == log_file.lines[n]
       IN  IF log_file.io_error_at = n
           THEN /\ handle' = "closed"
                /\ phase' = "failed"
                /\ error' = "Exception"
                /\ log_entries' = <<>>
                /\ UNCHANGED returned
           ELSE /\ returned' = Append(returned, ParseLogLineOf(line))
                /\ log_entries' = log_entries \o ParseLogLineOf(line)
                /\ UNCHANGED <<handle, phase, error>>
    /\ UNCHANGED <<timestamp_text, timestamp_value, log_file, previous_entries>>
    /\ UNCHANGED <<traffic_patterns, detection_results, min_risk_level, blocklist>>
    /\ UNCHANGED runVars
    /\ UNCHANGED extraVars

\* parsers.py parse_log_file at the end of the file: the with block closes
\* the file and the list is returned
CloseLogFile ==
    /\ phase = "reading"
    /\ Len(returned) = Len(log_file.lines)
    /\ handle' = "closed"
    /\ phase' = "parsed"
    /\ UNCHANGED <<error, detectorVars, runVars>>
    /\ UNCHANGED <<timestamp_text, timestamp_value, log_file, returned, previous_entries>>
    /\ UNCHANGED extraVars

\* main_analyzer.py main, lines 201 to 214: the existence check, then open()
\* with strict decoding
MainOpenLogFile ==
    /\ phase = "start"
    /\ log_entries' = <<>>
    /\ returned' = <<>>
    /\ IF log_file.exists
       THEN /\ handle' = "open"
            /\ phase' = "main_reading"
            /\ UNCHANGED exit_status
       ELSE /\ UNCHANGED handle
            /\ phase' = "returned"
            /\ exit_status' = 1
    /\ UNCHANGED <<error, stages, log_files, file_index, reports>>
    /\ UNCHANGED <<timestamp_text, timestamp_value, log_file, previous_entries>>
    /\ UNCHANGED <<traffic_patterns, detection_results, min_risk_level, blocklist>>
    /\ UNCHANGED extraVars

\* main_analyzer.py main, one iteration of the loop of lines 215 to 220.  An
\* error of the read, or bytes that are not UTF-8 in the text decoded with
\* this read (the buffer decoded at once may reach as far as the bad line),
\* leaves the with block, which closes the file; main catches neither.
MainReadLine ==
    /\ phase = "main_reading"
    /\ Len(returned) < Len(log_file.lines)
    /\ LET n == Len(returned) + 1
           line == log_file.lines[n]
           entry == IF line.shape = "blank" THEN <<>> ELSE MainParseLogLine(line)
       IN  \/ /\ log_file.io_error_at = n
              /\ error' = "OSError"
              /\ handle' = "closed"
              /\ phase' = "failed"
              /\ UNCHANGED <<returned, log_entries>>
           \/ /\ log_file.io_error_at # n
              /\ log_file.undecodable_at >= n
              /\ error' = "UnicodeDecodeError"
              /\ handle' = "closed"
              /\ phase' = "failed"
              /\ UNCHANGED <<returned, log_entries>>
           \/ /\ log_file.io_error_at # n
              /\ log_file.undecodable_at # n
              /\ returned' = Append(returned, entry)
              /\ log_entries' = log_entries \o entry
              /\ UNCHANGED <<handle, phase, error>>
    /\ UNCHANGED <<timestamp_text, timestamp_value, log_file, previous_entries>>
    /\ UNCHANGED <<traffic_patterns, detection_results, min_risk_level, blocklist>>
    /\ UNCHANGED runVars
    /\ UNCHANGED extraVars

\* mutant of MainEndOfFile: the analysis goes on with an empty list
MainEndOfFileProceeding ==
    /\ phase = "main_reading"
    /\ Len(returned) = Len(log_file.lines)
    /\ handle' = "closed"
    /\ phase' = "main_parsed"
    /\ UNCHANGED <<error, detectorVars, runVars>>
    /\ UNCHANGED <<timestamp_text, timestamp_value, log_file, returned, previous_entries>>
    /\ UNCHANGED extraVars

\* main_analyzer.py main, lines 214 and 225 to 229: the with block closes the
\* file at the end of the loop; without entries main prints and returns 1
MainEndOfFile ==
    /\ phase = "main_reading"
    /\ Len(returned) = Len(log_file.lines)
    /\ handle' = "closed"
    /\ IF log_entries = <<>>
       THEN phase' = "returned" /\ exit_status' = 1
       ELSE phase' = "main_parsed" /\ UNCHANGED exit_status
    /\ UNCHANGED <<error, detectorVars, stages, log_files, file_index, reports>>
    /\ UNCHANGED <<timestamp_text, timestamp_value, log_file, returned, previous_entries>>
    /\ UNCHANGED extraVars

\* main_analyzer.py main, lines 231 to 312: the per-IP counts, then the
\* risk scoring
MainAnalyze ==
    /\ phase = "main_parsed"
    /\ stages' = stages \o <<"aggregation", "scoring">>
    /\ phase' = "main_analyzed"
    /\ UNCHANGED <<error, detectorVars, parserVars>>
    /\ UNCHANGED <<exit_status, log_files, file_index, reports>>
    /\ UNCHANGED extraVars

\* main_analyzer.py main, lines 314 to 434: the reports are written, the
\* results printed, and main returns 0
MainReport ==
    /\ phase = "main_analyzed"
    /\ stages' = Append(stages, "report writing")
    /\ exit_status' = 0
    /\ phase' = "returned"
    /\ UNCHANGED <<error, detectorVars, parserVars>>
    /\ UNCHANGED <<log_files, file_index, reports>>
    /\ UNCHANGED extraVars

NextFile ==
    \/ OpenLogFile
    \/ ReadLogLine
    \/ CloseLogFile
    \/ MainOpenLogFile
    \/ MainReadLine
    \/ MainEndOfFile
    \/ MainAnalyze
    \/ MainReport

InitFile ==
    /\ phase = "start"
    /\ error = "none"
    /\ DetectorIdle
    /\ timestamp_text = <<>>
    /\ timestamp_value = <<>>
    /\ log_file \in LogFiles
    /\ returned = <<>>
    /\ handle = "none"
    /\ previous_entries = <<>>
    /\ RunIdle
    /\ ExtraIdle

\* one log file read whole, by LogParser.parse_log_file (twice over) or by
\* main() of main_analyzer.py
SpecFile == InitFile /\ [][NextFile]_vars

InitLine ==
    /\ phase = "start"
    /\ error = "none"
    /\ DetectorIdle
    /\ timestamp_text = <<>>
    /\ timestamp_value = <<>>
    /\ log_file \in OneLineFiles
    /\ returned = <<>>
    /\ handle = "none"
    /\ previous_entries = <<>>
    /\ RunIdle
    /\ ExtraIdle

\* one line in a file of its own, read by either parser
SpecLine == InitLine /\ [][NextFile]_vars

\* the files named on the command line of scripts/analyze_logs.py: whether
\* the path exists, what orchestrator.analyze_log_file does with it (a
\* result, a result holding the key 'error', an exception) and what
\* orchestrator.save_results does (the report is saved, an exception)
BatchFiles ==
    {[exists |-> FALSE, analysis |-> "result", save |-> "saved"],
     [exists |-> TRUE, analysis |-> "error", save |-> "saved"],
     [exists |-> TRUE, analysis |-> "raises", save |-> "saved"],
     [exists |-> TRUE, analysis |-> "result", save |-> "raises"],
     [exists |-> TRUE, analysis |-> "result", save |-> "saved"]}

\* argparse nargs='+': at least one file
BatchLists == UNION {[1..n -> BatchFiles] : n \in 1..MaxFiles}

\* a call of the orchestrator for the file at position file
Call(name, file) == [call |-> name, file |-> file]

\* mutant of AnalyzeNextFile: the body of the loop without its try block
AnalyzeNextFileUnguarded ==
    /\ phase = "looping"
    /\ file_index < Len(log_files)
    /\ LET n == file_index + 1
           file == log_files[n]
       IN  IF ~file.exists
           THEN /\ reports' = Append(reports, "not found")
                /\ file_index' = n
                /\ UNCHANGED <<stages, phase, error>>
           ELSE IF file.analysis = "raises"
           THEN /\ stages' = Append(stages, Call("analyze_log_file", n))
                /\ phase' = "failed"
                /\ error' = "Exception"
                /\ UNCHANGED <<reports, file_index>>
           ELSE IF file.analysis = "error"
           THEN /\ stages' = Append(stages, Call("analyze_log_file", n))
                /\ reports' = Append(reports, "analysis failed")
                /\ file_index' = n
                /\ UNCHANGED <<phase, error>>
           ELSE IF file.save = "raises"
           THEN /\ stages' = stages \o <<Call("analyze_log_file", n),
                                         Call("save_results", n)>>
                /\ phase' = "failed"
                /\ error' = "Exception"
                /\ UNCHANGED <<reports, file_index>>
           ELSE /\ stages' = stages \o <<Call("analyze_log_file", n),
                                         Call("save_results", n)>>
                /\ reports' = Append(reports, "complete")
                /\ file_index' = n
                /\ UNCHANGED <<phase, error>>
    /\ UNCHANGED <<exit_status, log_files>>
    /\ UNCHANGED <<detectorVars, parserVars>>
    /\ UNCHANGED extraVars

\* scripts/analyze_logs.py main, one iteration of "for log_file in
\* args.log_files": a missing path is reported and skipped; inside the try
\* block a result with the key 'error' is reported and skipped, a result
\* without it is saved and reported complete, and any Exception of the
\* orchestrator is caught and reported
AnalyzeNextFile ==
    /\ phase = "looping"
    /\ file_index < Len(log_files)
    /\ LET n == file_index + 1
           file == log_files[n]
       IN  /\ file_index' = n
           /\ IF ~file.exists
              THEN /\ reports' = Append(reports, "not found")
                   /\ UNCHANGED stages
              ELSE IF file.analysis = "raises"
              THEN /\ stages' = Append(stages, Call("analyze_log_file", n))
                   /\ reports' = Append(reports, "error")
              ELSE IF file.analysis = "error"
              THEN /\ stages' = Append(stages, Call("analyze_log_file", n))
                   /\ reports' = Append(reports, "analysis failed")
              ELSE /\ stages' = stages \o <<Call("analyze_log_file", n),
                                            Call("save_results", n)>>
                   /\ reports' = Append(reports, IF file.save = "raises"
                                                 THEN "error" ELSE "complete")
    /\ UNCHANGED <<phase, error, exit_status, log_files>>
    /\ UNCHANGED <<detectorVars, parserVars>>
    /\ UNCHANGED extraVars

\* scripts/analyze_logs.py main: the loop is exhausted and main returns
\* None, exit status 0
AnalyzeLogsReturn ==
    /\ phase = "looping"
    /\ file_index = Len(log_files)
    /\ phase' = "returned"
    /\ exit_status' = 0
    /\ UNCHANGED <<error, stages, log_files, file_index, reports>>
    /\ UNCHANGED <<detectorVars, parserVars>>
    /\ UNCHANGED extraVars

NextAnalyzeLogs ==
    \/ AnalyzeNextFile
    \/ AnalyzeLogsReturn

\* the state at the head of the loop, the orchestrator constructed
InitAnalyzeLogs ==
    /\ phase = "looping"
    /\ error = "none"
    /\ DetectorIdle
    /\ ParserIdle
    /\ exit_status = -1
    /\ stages = <<>>
    /\ log_files \in BatchLists
    /\ file_index = 0
    /\ reports = <<>>
    /\ ExtraIdle

\* a run of scripts/analyze_logs.py over a list of files
SpecAnalyzeLogs == InitAnalyzeLogs /\ [][NextAnalyzeLogs]_vars

\* validation.py validate_analysis_config called on the configuration
ValidateAnalysisConfig ==
    /\ phase = "start"
    /\ config_errors' = ValidateAnalysisConfigOf(config)
    /\ phase' = "validated"
    /\ UNCHANGED <<error, config, ddosVars, laterVars, detectorVars, parserVars, runVars>>

\* The start of a run, which is not in the repository's sources: a
\* configuration that validate_analysis_config finds invalid is fatal
\* (InvalidConfiguration), any other lets the detectors score.
StartScoring ==
    /\ phase = "validated"
    /\ IF config_errors = <<>>
       THEN phase' = "scoring" /\ UNCHANGED error
       ELSE phase' = "failed" /\ error' = "InvalidConfiguration"
    /\ UNCHANGED <<configVars, ddosVars, laterVars, detectorVars, parserVars, runVars>>

NextConfig ==
    \/ ValidateAnalysisConfig
    \/ StartScoring

InitConfig ==
    /\ phase = "start"
    /\ error = "none"
    /\ DetectorIdle
    /\ ParserIdle
    /\ RunIdle
    /\ config \in Configs
    /\ config_errors = <<>>
    /\ DdosIdle
    /\ LaterIdle

\* a configuration checked at the start of a run
SpecConfig == InitConfig /\ [][NextConfig]_vars

\* main(): the risk scoring of every IP and the sort of ip_analysis, which
\* becomes analysis_results['top_threats']
MainRankThreats ==
    /\ phase = "counted"
    /\ ip_counts # <<>>
    /\ top_threats' =
          SortedReverse(IpAnalysisList(ip_counts),
                        [k \in 1..Len(ip_counts) |-> MainSortKey(IpAnalysisList(ip_counts)[k])])
    /\ phase' = "ranked"
    /\ UNCHANGED <<error, ip_counts, summary_threats, top_bots>>
    /\ UNCHANGED <<configVars, ddosVars, detectorVars, parserVars, runVars>>
    /\ UNCHANGED <<previous_results, validationVars, stats, outputVars>>

\* save_analysis_reports: the TOP THREATS section of the summary file
SaveSummary ==
    /\ phase = "ranked"
    /\ top_threats # <<>>
    /\ summary_threats' = Head_n(top_threats, 10)
    /\ phase' = "saved"
    /\ UNCHANGED <<error, ip_counts, top_threats, top_bots>>
    /\ UNCHANGED <<configVars, ddosVars, detectorVars, parserVars, runVars>>
    /\ UNCHANGED <<previous_results, validationVars, stats, outputVars>>

\* detectors.py generate_bot_report; the keys of the report beside
\* 'top_bots' are left out
GenerateBotReport ==
    /\ phase = "detected"
    /\ top_bots' =
          Head_n(SortedReverse(
                     [k \in 1..Len(BotResults(detection_results)) |->
                         TopBot(BotResults(detection_results)[k])],
                     [k \in 1..Len(BotResults(detection_results)) |->
                         ConfidenceKey(BotResults(detection_results)[k])]), 10)
    /\ phase' = "reported"
    /\ UNCHANGED <<error, ip_counts, top_threats, summary_threats>>
    /\ UNCHANGED <<configVars, ddosVars, detectorVars, parserVars, runVars>>
    /\ UNCHANGED <<previous_results, validationVars, stats, outputVars>>

NextThreats ==
    \/ MainRankThreats
    \/ SaveSummary
    \/ DetectBots
    \/ GenerateBotReport

\* main() past its entry loop, or a detector handed its patterns
InitThreats ==
    /\ error = "none"
    /\ log_entries = <<>>
    /\ detection_results = <<>>
    /\ min_risk_level = "none"
    /\ blocklist = <<>>
    /\ ParserIdle
    /\ RunIdle
    /\ ConfigIdle
    /\ DdosIdle
    /\ top_threats = <<>>
    /\ summary_threats = <<>>
    /\ top_bots = <<>>
    /\ previous_results = <<>>
    /\ ValidationIdle
    /\ stats = <<>>
    /\ OutputIdle
    /\ \/ /\ phase = "counted"
          /\ ip_counts \in IpCountDicts
          /\ traffic_patterns = <<>>
       \/ /\ phase = "patterns"
          /\ ip_counts = <<>>
          /\ traffic_patterns \in ReportMaps

\* the threat lists of the reports: main()'s ranking and the detector's
SpecThreats == InitThreats /\ [][NextThreats]_vars

\* main() line 316: save_analysis_reports writes the three reports, prints
\* their names under REPORTS GENERATED and returns them
SaveAnalysisReports ==
    /\ phase = "main_analyzed"
    /\ output_dir' = Written(output_dir,
                             {File("traffic_analysis", 1, "json", "save_analysis_reports"),
                              File("summary", 1, "txt", "save_analysis_reports"),
                              File("traffic_analysis", 1, "csv", "save_analysis_reports")})
    /\ announced' = {File("traffic_analysis", 1, "json", "save_analysis_reports"),
                     File("summary", 1, "txt", "save_analysis_reports"),
                     File("traffic_analysis", 1, "csv", "save_analysis_reports")}
    /\ phase' = "reports_saved"
    /\ UNCHANGED <<error, visualizer, detectorVars, parserVars, runVars>>
    /\ UNCHANGED <<configVars, ddosVars, threatVars, previous_results, validationVars, stats>>

\* main() lines 320-357: the import of the visualizer raises ImportError
\* (matplotlib, seaborn or pandas is not installed), which main() reports
ImportVisualizerFails ==
    /\ phase = "reports_saved"
    /\ phase' = "displaying"
    /\ UNCHANGED <<error, outputVars, detectorVars, parserVars, runVars>>
    /\ UNCHANGED <<configVars, ddosVars, threatVars, previous_results, validationVars, stats>>

\* ProfessionalVisualizer('output'): __init__ takes its own timestamp, in the
\* second of save_analysis_reports or the next, and cleans the directory
ConstructVisualizer ==
    /\ phase = "reports_saved"
    /\ \E timestamp \in {1, 2} :
          /\ visualizer' = <<timestamp>>
          /\ output_dir' = CleanedUp(output_dir)
    /\ phase' = "visualizing"
    /\ UNCHANGED <<error, announced, detectorVars, parserVars, runVars>>
    /\ UNCHANGED <<configVars, ddosVars, threatVars, previous_results, validationVars, stats>>

\* generate_professional_reports: the dashboard, CSV, JSON and TXT files of
\* the visualizer are written, or the first of them raises and main()
\* reports "Dashboard generation failed"
GenerateProfessionalReports ==
    /\ phase = "visualizing"
    /\ \/ output_dir' = Written(output_dir,
                {File("traffic_dashboard", visualizer[1], "png", "ProfessionalVisualizer"),
                 File("traffic_analysis", visualizer[1], "csv", "ProfessionalVisualizer"),
                 File("traffic_report", visualizer[1], "json", "ProfessionalVisualizer"),
                 File("summary", visualizer[1], "txt", "ProfessionalVisualizer")})
       \/ UNCHANGED output_dir
    /\ phase' = "displaying"
    /\ UNCHANGED <<error, announced, visualizer, detectorVars, parserVars, runVars>>
    /\ UNCHANGED <<configVars, ddosVars, threatVars, previous_results, validationVars, stats>>

\* main() lines 362-434: the results are printed and main() returns 0
MainReturn ==
    /\ phase = "displaying"
    /\ exit_status' = 0
    /\ phase' = "returned"
    /\ UNCHANGED <<error, outputVars, detectorVars, parserVars>>
    /\ UNCHANGED <<stages, log_files, file_index, reports>>
    /\ UNCHANGED <<configVars, ddosVars, threatVars, previous_results, validationVars, stats>>

NextReports ==
    \/ SaveAnalysisReports
    \/ ImportVisualizerFails
    \/ ConstructVisualizer
    \/ GenerateProfessionalReports
    \/ MainReturn

\* main() with its analysis done, the output directory holding what was
\* left in it
InitReports ==
    /\ phase = "main_analyzed"
    /\ error = "none"
    /\ DetectorIdle
    /\ ParserIdle
    /\ RunIdle
    /\ ConfigIdle
    /\ DdosIdle
    /\ ThreatIdle
    /\ previous_results = <<>>
    /\ ValidationIdle
    /\ stats = <<>>
    /\ output_dir \in SUBSET OldFiles
    /\ announced = {}
    /\ visualizer = <<>>

\* the report writing of one run of main()
SpecReports == InitReports /\ [][NextReports]_vars

\* get_log_statistics, from the return of its parse_log_file call (made by
\* OpenLogFile, ReadLogLine and CloseLogFile) to its own return
GetLogStatistics ==
    /\ phase \in {"parsed", "failed"}
    /\ stats = <<>>
    /\ stats' = <<LogStatistics(log_entries, error)>>
    /\ phase' = "returned"
    /\ UNCHANGED <<error, detectorVars, parserVars, runVars>>
    /\ UNCHANGED <<configVars, ddosVars, threatVars, previous_results, validationVars, outputVars>>

NextStatistics ==
    \/ OpenLogFile
    \/ ReadLogLine
    \/ CloseLogFile
    \/ GetLogStatistics

InitStatistics ==
    /\ phase = "start"
    /\ error = "none"
    /\ DetectorIdle
    /\ timestamp_text = <<>>
    /\ timestamp_value = <<>>
    /\ log_file \in StatisticsFiles
    /\ returned = <<>>
    /\ handle = "none"
    /\ previous_entries = <<>>
    /\ RunIdle
    /\ ExtraIdle

\* one get_log_statistics call on a log file
SpecStatistics == InitStatistics /\ [][NextStatistics]_vars

\* ValidationUtils.sanitize_user_agent called on a string
SanitizeUserAgent ==
    /\ phase = "start"
    /\ return_value' = <<SanitizeUserAgentOf(argument)>>
    /\ phase' = "sanitized"
    /\ UNCHANGED <<error, argument, detectorVars, parserVars, runVars>>
    /\ UNCHANGED <<configVars, ddosVars, threatVars, previous_results, stats, outputVars>>

InitSanitize ==
    /\ phase = "start"
    /\ error = "none"
    /\ DetectorIdle
    /\ ParserIdle
    /\ RunIdle
    /\ ConfigIdle
    /\ DdosIdle
    /\ ThreatIdle
    /\ previous_results = <<>>
    /\ stats = <<>>
    /\ OutputIdle
    /\ argument \in UserAgentTexts
    /\ return_value = <<>>

\* one sanitize_user_agent call
SpecSanitize == InitSanitize /\ [][SanitizeUserAgent]_vars

\* ValidationUtils.normalize_path called on a string
NormalizePath ==
    /\ phase = "start"
    /\ return_value' = <<NormalizePathOf(argument)>>
    /\ phase' = "normalized"
    /\ UNCHANGED <<error, argument, detectorVars, parserVars, runVars>>
    /\ UNCHANGED <<configVars, ddosVars, threatVars, previous_results, stats, outputVars>>

InitNormalize ==
    /\ phase = "start"
    /\ error = "none"
    /\ DetectorIdle
    /\ ParserIdle
    /\ RunIdle
    /\ ConfigIdle
    /\ DdosIdle
    /\ ThreatIdle
    /\ previous_results = <<>>
    /\ stats = <<>>
    /\ OutputIdle
    /\ argument \in PathTexts
    /\ return_value = <<>>

\* one normalize_path call
SpecNormalize == InitNormalize /\ [][NormalizePath]_vars

\* the window scan over the whole stream
ScanWindows ==
    /\ phase = "start"
    /\ ddos_alerts' = ScanWindowsFrom(windows, 1)
    /\ phase' = "scanned"
    /\ UNCHANGED <<error, windows, configVars, laterVars, detectorVars, parserVars, runVars>>

InitDdos ==
    /\ phase = "start"
    /\ error = "none"
    /\ DetectorIdle
    /\ ParserIdle
    /\ RunIdle
    /\ ConfigIdle
    /\ windows \in WindowStreams
    /\ ddos_alerts = <<>>
    /\ LaterIdle

\* the windows of one entry stream scanned for DDoS alerts
SpecDdos == InitDdos /\ [][ScanWindows]_vars

----------------------------------------------------------------------------
(* Properties of the detector *)

\* the results of the last detect_bots call, by position
Analyzed == 1..Len(detection_results)

\* The sum S of the six contributions, as section 4.3 lists them.
ContributionSum(p) ==
      (IF p.requests_per_minute > 10 THEN 300 ELSE 0)
    + AnalyzeUserAgents(p.user_agents) * 3
    + (IF p.unique_paths = 1 /\ p.request_count > 10 THEN 200 ELSE 0)
    + (IF p.error_rate > 30 THEN 200 ELSE 0)
    + (IF p.suspicious_requests > 0 THEN 400 ELSE 0)
    + (IF p.requests_per_minute > 5 /\ p.avg_response_time < 100 THEN 100 ELSE 0)

\* C1: the confidence of every result is min(1.0, S), S the sum of the six
\* contributions 0.3 (rate), ua_score * 0.3, 0.2 (single path), 0.2 (error
\* rate), 0.4 (suspicious paths), 0.1 (timing); nothing else contributes and
\* the sum is clamped, not renormalized.
C1_ConfidenceIsClampedSum ==
    \A i \in Analyzed :
        detection_results[i].confidence =
            Min(1000, ContributionSum(traffic_patterns[i]))

\* a result whose six contributions all apply and whose sum is clamped
C1_Witness ==
    \E i \in Analyzed :
        /\ Len(detection_results[i].reasons) = 6
        /\ ContributionSum(traffic_patterns[i]) > 1000
        /\ detection_results[i].confidence = 1000

\* C2: is_bot holds exactly when the reported confidence exceeds 0.5; a sum of
\* exactly 0.5 is not a bot.
C2_IsBotIffAboveHalf ==
    \A i \in Analyzed :
        detection_results[i].is_bot <=> detection_results[i].confidence > 500

\* a result whose signals sum to exactly 0.5 and that is not a bot
C2_Witness ==
    /\ \E i \in Analyzed :
        /\ ContributionSum(traffic_patterns[i]) = 500
        /\ detection_results[i].confidence = 500
        /\ ~detection_results[i].is_bot
    /\ phase = "detected"

\* the risk level the ordered rules of section 4.3 give
RuleRiskLevel(confidence, p) ==
    CASE confidence >= 900 \/ p.suspicious_requests > 5   -> "CRITICAL"
      [] confidence >= 700 \/ p.requests_per_minute > 20  -> "HIGH"
      [] confidence >= 500 \/ p.requests_per_minute > 10  -> "MEDIUM"
      [] OTHER                                            -> "LOW"

\* C3: the risk level of every result is the level of the first matching rule
\* (CRITICAL, HIGH, MEDIUM, else LOW) applied to its confidence and pattern,
\* and is one of the four levels.
C3_RiskLevelFirstMatch ==
    \A i \in Analyzed :
        /\ detection_results[i].risk_level \in {"LOW", "MEDIUM", "HIGH", "CRITICAL"}
        /\ detection_results[i].risk_level =
              RuleRiskLevel(detection_results[i].confidence, traffic_patterns[i])

\* a result sitting exactly on the 0.9 bound with few suspicious requests
C3_Witness ==
    \E i \in Analyzed :
        /\ detection_results[i].confidence = 900
        /\ ContributionSum(traffic_patterns[i]) = 900
        /\ traffic_patterns[i].suspicious_requests <= 5
        /\ detection_results[i].risk_level = "CRITICAL"

\* the five on/off signals of section 4.3, by name
Triggered(p) ==
    [rate   |-> p.requests_per_minute > 10,
     single |-> p.unique_paths = 1 /\ p.request_count > 10,
     errors |-> p.error_rate > 30,
     susp   |-> p.suspicious_requests > 0,
     timing |-> p.requests_per_minute > 5 /\ p.avg_response_time < 100]

SignalNames == {"rate", "single", "errors", "susp", "timing"}

\* every signal triggered in p is triggered in q, and q's ua_score is no lower
SignalsAtMost(p, q) ==
    /\ \A n \in SignalNames : Triggered(p)[n] => Triggered(q)[n]
    /\ AnalyzeUserAgents(p.user_agents) <= AnalyzeUserAgents(q.user_agents)

\* p and q differ in the outcome of exactly one of the six signals
OneSignalApart(p, q) ==
    Cardinality({n \in SignalNames : Triggered(p)[n] # Triggered(q)[n]})
    + (IF AnalyzeUserAgents(p.user_agents) # AnalyzeUserAgents(q.user_agents)
       THEN 1 ELSE 0) = 1

\* C4: confidence is monotonic in the signals: of two patterns analysed in one
\* call, the one with no fewer triggered signals and no lower ua_score gets no
\* lower confidence; and no confidence exceeds 1.0.
C4_ConfidenceMonotonic ==
    \A i \in Analyzed :
        /\ detection_results[i].confidence <= 1000
        /\ \A j \in Analyzed :
              SignalsAtMost(traffic_patterns[i], traffic_patterns[j])
              => detection_results[i].confidence <= detection_results[j].confidence

\* two analysed patterns one signal (the timing signal) apart, the second with
\* the higher confidence
C4_Witness ==
    /\ Len(detection_results) = 2
    /\ SignalsAtMost(traffic_patterns[1], traffic_patterns[2])
    /\ OneSignalApart(traffic_patterns[1], traffic_patterns[2])
    /\ ~Triggered(traffic_patterns[1]).timing
    /\ Triggered(traffic_patterns[2]).timing
    /\ detection_results[1].confidence < detection_results[2].confidence

\* rank of a level under LOW < MEDIUM < HIGH < CRITICAL
LevelRank(level) ==
    CASE level = "LOW" -> 1 [] level = "MEDIUM" -> 2
      [] level = "HIGH" -> 3 [] level = "CRITICAL" -> 4

\* the IPs of the results ranked at least min_level, in the order of the results
IpsAtLeast(min_level) ==
    LET AtLeast(r) == LevelRank(r.risk_level) >= LevelRank(min_level)
        kept == SelectSeq(detection_results, AtLeast)
    IN  [i \in 1..Len(kept) |-> kept[i].ip]

AllIps == [i \in 1..Len(detection_results) |-> detection_results[i].ip]

\* C5: export_blocklist returns exactly the IPs whose risk level ranks at
\* least min_risk_level, in the order of the results; for LOW that is every
\* analysed IP, and the list returned for CRITICAL right after the one for
\* HIGH is a subset of it.
C5_BlocklistByRank ==
    /\ [](phase = "exported" =>
            /\ blocklist = IpsAtLeast(min_risk_level)
            /\ (min_risk_level = "LOW" => blocklist = AllIps))
    /\ [][(/\ phase = "exported" /\ min_risk_level = "HIGH"
           /\ phase' = "exported" /\ min_risk_level' = "CRITICAL")
          => Range(blocklist') \subseteq Range(blocklist)]_vars

\* an export for HIGH over three results that keeps the first and the third
C5_Witness ==
    /\ phase = "exported"
    /\ min_risk_level = "HIGH"
    /\ Len(detection_results) = 3
    /\ blocklist = <<detection_results[1].ip, detection_results[3].ip>>
    /\ detection_results[1].risk_level = "CRITICAL"
    /\ detection_results[3].risk_level = "HIGH"

\* the four names export_blocklist accepts
LevelNames == {"LOW", "MEDIUM", "HIGH", "CRITICAL"}

MatchingSignatures(user_agents) ==
    {g \in 1..Len(BotSignatures) :
        \E u \in 1..Len(user_agents) :
          \E q \in 1..Len(BotSignatures[g].user_agent_patterns) :
            ReMatch(BotSignatures[g].user_agent_patterns[q], user_agents[u])}

\* the largest score among the matching signatures, 0 when none matches
LargestMatchingScore(user_agents) ==
    LET hit == MatchingSignatures(user_agents)
    IN  IF hit = {} THEN 0
        ELSE BotSignatures[CHOOSE g \in hit :
                 \A h \in hit : BotSignatures[h].confidence_score
                                <= BotSignatures[g].confidence_score].confidence_score

\* the sum of the five contributions other than the user-agent one
OtherContributions(p) ==
      (IF Triggered(p).rate THEN 300 ELSE 0)
    + (IF Triggered(p).single THEN 200 ELSE 0)
    + (IF Triggered(p).errors THEN 200 ELSE 0)
    + (IF Triggered(p).susp THEN 400 ELSE 0)
    + (IF Triggered(p).timing THEN 100 ELSE 0)

\* C7: for a pattern with at least one user agent the user-agent score that
\* enters the confidence is the maximum score over the matching signatures
\* (0 when none matches), never their sum, and so at most 0.95.
C7_UaScoreIsMaximum ==
    \A i \in Analyzed :
        traffic_patterns[i].user_agents # <<>> =>
            /\ LargestMatchingScore(traffic_patterns[i].user_agents) <= 95
            /\ detection_results[i].confidence =
                  Min(1000, OtherContributions(traffic_patterns[i])
                            + 3 * LargestMatchingScore(traffic_patterns[i].user_agents))

\* a pattern whose user agents match two signatures (0.7 and 0.95) and whose
\* confidence, not clamped, holds 0.95 * 0.3 for them
C7_Witness ==
    \E i \in Analyzed :
        /\ Cardinality(MatchingSignatures(traffic_patterns[i].user_agents)) >= 2
        /\ OtherContributions(traffic_patterns[i]) = 300
        /\ detection_results[i].confidence = 585

\* the IP of result i sent no user agent at all: its pattern lists none, or
\* the pattern was aggregated from entries that all carry an empty user agent
NoUserAgentAtAll(i) ==
    \/ traffic_patterns[i].user_agents = <<>>
    \/ /\ log_entries # <<>>
       /\ \A k \in 1..Len(log_entries) :
             log_entries[k].ip = traffic_patterns[i].ip
             => log_entries[k].user_agent = <<>>

\* C8: an IP whose requests carry no user agent at all (such as entries parsed
\* from the common log format) is scored with ua_score = 0.5: the user-agent
\* signal adds exactly 0.15 and is recorded among the reasons.
C8_NoUserAgentScoresHalf ==
    \A i \in Analyzed :
        NoUserAgentAtAll(i) =>
            /\ detection_results[i].confidence =
                  Min(1000, OtherContributions(traffic_patterns[i]) + 150)
            /\ \E k \in 1..Len(detection_results[i].reasons) :
                  detection_results[i].reasons[k].msg = "Bot-like user agent detected"

\* the messages of the triggered signals, in evaluation order
ExpectedMessages(p) ==
       (IF Triggered(p).rate THEN <<"High request rate">> ELSE <<>>)
    \o (IF AnalyzeUserAgents(p.user_agents) > 0
        THEN <<"Bot-like user agent detected">> ELSE <<>>)
    \o (IF Triggered(p).single THEN <<"Low path diversity with high volume">> ELSE <<>>)
    \o (IF Triggered(p).errors THEN <<"High error rate">> ELSE <<>>)
    \o (IF Triggered(p).susp THEN <<"Suspicious path requests">> ELSE <<>>)
    \o (IF Triggered(p).timing THEN <<"Suspicious timing patterns">> ELSE <<>>)

\* C9: the reasons of every result are one entry per triggered signal and
\* none for the others, in the order rate, user agent, single path, error
\* rate, suspicious paths, timing; reasons is empty exactly when the
\* confidence is 0.
C9_ReasonsMatchSignals ==
    \A i \in Analyzed :
        /\ [k \in 1..Len(detection_results[i].reasons) |->
               detection_results[i].reasons[k].msg]
           = ExpectedMessages(traffic_patterns[i])
        /\ (detection_results[i].reasons = <<>>) <=> (detection_results[i].confidence = 0)

\* a result with three reasons, for the first, fourth and sixth signal
C9_Witness ==
    \E i \in Analyzed :
        /\ Len(detection_results[i].reasons) = 3
        /\ detection_results[i].reasons[1].msg = "High request rate"
        /\ detection_results[i].reasons[2].msg = "High error rate"
        /\ detection_results[i].reasons[3].msg = "Suspicious timing patterns"
        /\ AnalyzeUserAgents(traffic_patterns[i].user_agents) = 0

\* the action section 4.3 gives each level
LevelAction ==
    [CRITICAL |-> "BLOCK_IMMEDIATELY", HIGH |-> "RATE_LIMIT_STRICT",
     MEDIUM |-> "RATE_LIMIT_MODERATE", LOW |-> "MONITOR"]

\* the action code of a recommended_action: the text before " - "
ActionCode(action) ==
    CASE action = "BLOCK_IMMEDIATELY - High confidence malicious bot" -> "BLOCK_IMMEDIATELY"
      [] action = "RATE_LIMIT_STRICT - Apply strict rate limiting" -> "RATE_LIMIT_STRICT"
      [] action = "RATE_LIMIT_MODERATE - Apply moderate rate limiting" -> "RATE_LIMIT_MODERATE"
      [] action = "MONITOR - Continue monitoring for patterns" -> "MONITOR"
      [] OTHER -> action

\* C10: the recommended action is fixed by the risk level alone, one action
\* per level: CRITICAL block immediately, HIGH strict rate limit, MEDIUM
\* moderate rate limit, LOW monitor; two results share an action exactly when
\* they share a risk level.
C10_ActionOneToOne ==
    \A i \in Analyzed :
        /\ ActionCode(detection_results[i].recommended_action)
           = LevelAction[detection_results[i].risk_level]
        /\ \A j \in Analyzed :
              (detection_results[i].recommended_action
               = detection_results[j].recommended_action)
              <=> (detection_results[i].risk_level = detection_results[j].risk_level)

\* three results: two with the same level and action, one HIGH next to a MEDIUM
C10_Witness ==
    /\ Len(detection_results) = 3
    /\ detection_results[1].risk_level = "HIGH"
    /\ detection_results[2].risk_level = "MEDIUM"
    /\ detection_results[3].risk_level = "HIGH"
    /\ detection_results[1].recommended_action = detection_results[3].recommended_action
    /\ detection_results[1].recommended_action # detection_results[2].recommended_action

\* one of the user agents matches a pattern of the Curl Bot signature
MatchesCurlSignature(user_agents) ==
    \E u \in 1..Len(user_agents) :
        \E q \in 1..Len(BotSignatures[1].user_agent_patterns) :
            ReMatch(BotSignatures[1].user_agent_patterns[q], user_agents[u])

\* the pattern of the scenario of section 8: a rate above the threshold, a
\* curl user agent and at least one suspicious-path request
CurlOnSuspiciousPath(p) ==
    /\ p.requests_per_minute > 10
    /\ MatchesCurlSignature(p.user_agents)
    /\ p.suspicious_requests >= 1

\* C11: a pattern with requests_per_minute above the rate threshold, a user
\* agent matching the curl signature and at least one suspicious-path request
\* gets confidence > 0.5, is_bot = true and risk level HIGH or CRITICAL,
\* whatever its other fields are.
C11_CurlOnSuspiciousPathIsBot ==
    \A i \in Analyzed :
        CurlOnSuspiciousPath(traffic_patterns[i]) =>
            /\ detection_results[i].confidence > 500
            /\ detection_results[i].is_bot
            /\ detection_results[i].risk_level \in {"HIGH", "CRITICAL"}

\* such a pattern with every other signal off and one suspicious request: the
\* three contributions 0.3 + 0.27 + 0.4 alone carry the verdict
C11_Witness ==
    \E i \in Analyzed :
        /\ CurlOnSuspiciousPath(traffic_patterns[i])
        /\ traffic_patterns[i].suspicious_requests = 1
        /\ traffic_patterns[i].requests_per_minute = 11
        /\ Len(detection_results[i].reasons) = 3
        /\ detection_results[i].confidence = 970
        /\ detection_results[i].is_bot

\* no block of the analysis triggers on p: the rate is within both rate
\* thresholds (10 for the rate signal, 5 for the timing signal), p lists user
\* agents and none matches a signature, p has several paths or at most 10
\* requests, its error rate is at most 0.3 and it has no suspicious request
TriggersNoSignal(p) ==
    /\ p.requests_per_minute <= 10
    /\ p.requests_per_minute <= 5
    /\ p.user_agents # <<>>
    /\ MatchingSignatures(p.user_agents) = {}
    /\ (p.unique_paths > 1 \/ p.request_count <= 10)
    /\ p.error_rate <= 30
    /\ p.suspicious_requests = 0

\* C12: a pattern that triggers no signal gets confidence 0, is_bot = false
\* and risk level LOW.
C12_NoSignalIsLow ==
    \A i \in Analyzed :
        TriggersNoSignal(traffic_patterns[i]) =>
            /\ detection_results[i].confidence = 0
            /\ ~detection_results[i].is_bot
            /\ detection_results[i].risk_level = "LOW"

\* a quiet pattern sitting on the thresholds: 5 requests per minute, a single
\* path with exactly 10 requests, an error rate of exactly 0.3, fast responses
C12_Witness ==
    \E i \in Analyzed :
        /\ TriggersNoSignal(traffic_patterns[i])
        /\ traffic_patterns[i].requests_per_minute = 5
        /\ traffic_patterns[i].unique_paths = 1
        /\ traffic_patterns[i].request_count = 10
        /\ traffic_patterns[i].error_rate = 30
        /\ traffic_patterns[i].avg_response_time = 99
        /\ detection_results[i].confidence = 0
        /\ detection_results[i].risk_level = "LOW"

----------------------------------------------------------------------------
(* Properties of the parser *)

\* the four formats of section 4.1, in its order: day/MonAbbrev/year with
\* offset, the same without offset, day/month-number/year, year-month-day
ListedFormats == SubSeq(TimestampFormats, 1, 4)

\* the string ends in a +ZZZZ or -ZZZZ offset
EndsInOffset(s) ==
    /\ Len(s) >= 5
    /\ s[Len(s) - 4] \in {"+", "-"}
    /\ \A j \in 0..3 : IsDigit(s[Len(s) - j])

\* the string without its trailing offset and the blanks that set it off
WithoutOffset(s) ==
    LET body == SubSeq(s, 1, Len(s) - 5)
        solid == {i \in 1..Len(body) : ~IsSpace(body[i])}
    IN  IF solid = {} THEN <<>> ELSE SubSeq(body, 1, SetMax(solid))

\* the timestamp section 4.1 gives a string: that of the first listed format
\* matching it; failing all, and the string ending in an offset, that of the
\* first listed format matching the string without the offset; else none
ListedTimestamp(s) ==
    IF FirstFormat(s, ListedFormats) # <<>> THEN FirstFormat(s, ListedFormats)
    ELSE IF EndsInOffset(s) THEN FirstFormat(WithoutOffset(s), ListedFormats)
    ELSE <<>>

\* C15: timestamp parsing tries the formats in the fixed order
\* day/MonAbbrev/year with offset, the same without offset,
\* day/month-number/year, year-month-day and returns the first that matches;
\* if none matches and the string ends in a +/-ZZZZ offset, the offset is
\* stripped and the formats are retried once; the result is no timestamp,
\* never an exception, exactly when no format matches the original or the
\* stripped string.
C15_TimestampFormatsInOrder ==
    (phase = "returned" /\ timestamp_text # <<>>) =>
        /\ error = "none"
        /\ timestamp_value = ListedTimestamp(timestamp_text)


\* the grammars in the order parse_log_line is documented to try them
GrammarOrder == <<"custom", "combined", "common">>

GrammarEntry(grammar, line) ==
    CASE grammar = "custom"   -> ParseCustomFormat(line)
      [] grammar = "combined" -> ParseCombinedFormat(line)
      [] grammar = "common"   -> ParseCommonFormat(line)

\* the entry of the first grammar of the order that yields one
FirstSuccess(line) ==
    LET ok == {k \in 1..Len(GrammarOrder) :
                   GrammarEntry(GrammarOrder[k], line) # <<>>}
    IN  IF ok = {} THEN <<>>
        ELSE GrammarEntry(GrammarOrder[CHOOSE k \in ok : \A j \in ok : k <= j],
                          line)

\* line k of the file came back as the entry of the first grammar that
\* accepts it, the combined entry with its user agent when both the combined
\* and the common grammar accept it
GrammarsInOrder(k) ==
    LET line == log_file.lines[k]
    IN  line.shape \notin {"blank", "comment"} =>
            /\ returned[k] = FirstSuccess(line)
            /\ (ParseCombinedFormat(line) # <<>>
                /\ ParseCommonFormat(line) # <<>>) =>
                   /\ returned[k] = ParseCombinedFormat(line)
                   /\ returned[k][1].user_agent = line.user_agent

\* the lines parsed by LogParser.parse_log_line alone
LogParserGrammarsInOrder ==
    phase \in {"reading", "parsed"} =>
        \A k \in 1..Len(returned) : GrammarsInOrder(k)

\* C13: parse_log_line tries the custom, the combined and the common grammar
\* in this order and returns the entry of the first that yields one; a line
\* both the combined and the common grammar accept comes back as the combined
\* entry, with its user agent.
C13_GrammarsInOrder ==
    \A k \in 1..Len(returned) : GrammarsInOrder(k)


\* the timestamps a format of LogParser accepts, among those of the lines read
KnownTimestamps == {TsApache, TsApache30, TsApacheOffset, TsNumeric, TsIso}

\* a line that holds a request in one of the three grammars with a timestamp
\* in a known format
Parseable(line) ==
    /\ line.shape \in {"custom", "combined", "common"}
    /\ line.timestamp \in KnownTimestamps

\* the entry is the one of the line: its address, its user agent (none in
\* the common grammar) and its status
EntryOfLine(entry, line) ==
    /\ entry.ip = line.ip
    /\ entry.path = line.path
    /\ entry.status_code = ToInt(line.status_code)
    /\ entry.user_agent = (IF line.shape = "common" THEN <<>> ELSE line.user_agent)

\* the entries are those of the parseable lines among the first n, in order
EntriesOfParseableLines(entries, n) ==
    LET parseable == SelectSeq(SubSeq(log_file.lines, 1, n), Parseable)
    IN  /\ Len(entries) = Len(parseable)
        /\ \A k \in 1..Len(parseable) : EntryOfLine(entries[k], parseable[k])

\* C14: parsing a line never raises; a blank line, a comment and a malformed
\* line each yield no entry and parse_log_file reads on to the end of the
\* file, so that its result is the entries of the parseable lines in file
\* order.
C14_UnparsableLinesSkipped ==
    /\ phase = "reading" =>
           /\ EntriesOfParseableLines(log_entries, Len(returned))
           /\ \A k \in 1..Len(returned) :
                  ~Parseable(log_file.lines[k]) => returned[k] = <<>>
    /\ phase = "parsed" =>
           /\ Len(returned) = Len(log_file.lines)
           /\ EntriesOfParseableLines(log_entries, Len(log_file.lines))
    /\ (phase = "failed" /\ error = "Exception") =>
           \/ ~log_file.exists
           \/ log_file.io_error_at = Len(returned) + 1

\* a file whose two parseable lines are separated by a line that is not has
\* been read to its end
C14_Witness ==
    /\ phase = "parsed"
    /\ Len(log_file.lines) = 3
    /\ Parseable(log_file.lines[1])
    /\ log_file.lines[2].shape = "malformed"
    /\ Parseable(log_file.lines[3])
    /\ log_file.lines[1] # log_file.lines[3]
    /\ Len(log_entries) = 2
    /\ log_entries[1].ip = log_file.lines[1].ip
    /\ log_entries[2].ip = log_file.lines[3].ip


\* C16: every LogEntry the parser returns has a status code in 100..599 and
\* a source IP that is a valid IPv4 or IPv6 address; a line that matches a
\* grammar and breaks either constraint yields no entry.
C16_EntriesAreValid ==
    \A k \in 1..Len(log_entries) :
        /\ IsValidStatusCode(log_entries[k].status_code)
        /\ IsValidIp(log_entries[k].ip)


C20_HandleReleased ==
    /\ handle = "open" => phase \in {"reading", "main_reading"}
    /\ (phase \notin {"start", "reading", "main_reading"} /\ log_file.exists) =>
           handle = "closed"

\* parse_log_file has raised at the second line of a file, after an entry
\* was parsed from the first
C20_Witness ==
    /\ phase = "failed"
    /\ error = "Exception"
    /\ log_file.io_error_at = 2
    /\ Len(returned) = 1
    /\ returned[1] # <<>>
    /\ handle = "closed"


\* what the run reports for a file
ReportOf(file) ==
    IF ~file.exists THEN "not found"
    ELSE IF file.analysis = "error" THEN "analysis failed"
    ELSE IF file.analysis = "raises" \/ file.save = "raises" THEN "error"
    ELSE "complete"

\* the files whose analysis was called, in the order of the calls
FilesAnalyzed ==
    LET calls == SelectSeq(stages, LAMBDA c : c.call = "analyze_log_file")
    IN  [k \in 1..Len(calls) |-> calls[k].file]

C21_UndecodableBytesDropped ==
    log_file.undecodable_at # 0 =>
        /\ phase # "failed"
        /\ error = "none"
        /\ phase \in {"parsed", "main_parsed", "main_analyzed", "returned"} =>
               Len(returned) = Len(log_file.lines)


(* Properties of the aggregation *)

\* the invariant of a TrafficPattern, error_rate in percent
PatternInvariant(p) ==
    /\ p.request_count >= 1
    /\ 0 <= p.error_rate
    /\ p.error_rate <= 100
    /\ p.unique_paths <= p.request_count
    /\ p.suspicious_requests <= p.request_count

\* C23: every TrafficPattern built by aggregating a non-empty entry sequence
\* has request_count >= 1, an error_rate within [0,1], unique_paths and
\* suspicious_requests no larger than request_count, and there is exactly
\* one pattern per distinct IP.
C23_PatternInvariants ==
    (log_entries # <<>> /\ phase \in {"patterns", "detected", "exported"}) =>
        /\ \A k \in 1..Len(traffic_patterns) : PatternInvariant(traffic_patterns[k])
        /\ \A j, k \in 1..Len(traffic_patterns) :
               traffic_patterns[j].ip = traffic_patterns[k].ip => j = k
        /\ {traffic_patterns[k].ip : k \in 1..Len(traffic_patterns)}
               = {log_entries[i].ip : i \in 1..Len(log_entries)}

\* three entries of two IPs have been aggregated; one IP made two requests,
\* to two paths, one of them suspicious and answered with an error
C23_Witness ==
    /\ phase = "patterns"
    /\ Len(log_entries) = 3
    /\ Len(traffic_patterns) = 2
    /\ \E k \in 1..2 :
           /\ traffic_patterns[k].request_count = 2
           /\ traffic_patterns[k].unique_paths = 2
           /\ traffic_patterns[k].error_rate = 50
           /\ traffic_patterns[k].suspicious_requests = 1

(* Properties of the window scan *)

\* the windows of the stream that hold at least 1000 requests, at least half
\* of them errors, from fewer distinct IPs than a tenth of the requests
AttackWindows ==
    {k \in 1..Len(windows) :
        /\ windows[k].request_count >= 1000
        /\ 2 * windows[k].error_count >= windows[k].request_count
        /\ 10 * windows[k].unique_ips < windows[k].request_count}

C30_AnnouncedReportsExist ==
    phase = "returned" /\ exit_status = 0
    => announced \subseteq output_dir

(***************************************************************************)
(* Properties of the timestamps of one file *)
(***************************************************************************)

\* C29: the entries parse_log_file returns for one file carry timestamps
\* that are all timezone-aware or all naive, and get_log_statistics takes the
\* earliest and the latest of them without an error.
C29_TimestampsComparable ==
    /\ phase \in {"parsed", "returned"}
       => \A i, j \in 1..Len(log_entries) :
             log_entries[i].timestamp.tz_aware = log_entries[j].timestamp.tz_aware
    /\ phase = "returned" /\ log_entries # <<>>
       => stats[1].error = "none" /\ stats[1].date_range # <<>>

(***************************************************************************)
(* Properties of the ValidationUtils functions *)
(***************************************************************************)

\* C27: sanitize_user_agent returns a non-empty string of at most 500
\* characters: 'Unknown' when the input is empty or nothing is left of it
\* after sanitizing and stripping, otherwise the sanitized text cut to its
\* first 500 characters.
C27_SanitizedUserAgent ==
    phase = "sanitized"
    => /\ Len(return_value[1]) >= 1
       /\ Len(return_value[1]) <= 500
       /\ IF StripWhitespace(RemoveHarmful(argument)) = <<>>
          THEN return_value[1] = Unknown
          ELSE return_value[1] = Head_n(StripWhitespace(RemoveHarmful(argument)), 500)

\* C28: the output of normalize_path holds no '?' and no '#', no two
\* slashes in a row and no upper-case letter, and normalizing it again gives
\* it back.
C28_PathFullyNormalized ==
    phase = "normalized"
    => /\ \A i \in 1..Len(return_value[1]) :
             /\ return_value[1][i] \notin {"?", "#"}
             /\ return_value[1][i] \notin DOMAIN UpperToLower
             /\ i > 1 => ~(return_value[1][i] = "/" /\ return_value[1][i - 1] = "/")
       /\ NormalizePathOf(return_value[1]) = return_value[1]

(***************************************************************************)
(* Properties of detect_bots as a function *)
(***************************************************************************)

\* a step that is a detect_bots call
IsDetectBotsCall == phase \in {"patterns", "detected"} /\ phase' = "detected"

Threats(list) ==
    [k \in 1..Len(list) |-> [ip |-> list[k].ip,
                             confidence |-> list[k].confidence_score,
                             risk_level |-> list[k].risk_level]]

\* a list in the order of the report: confidence descending, ties by risk
\* rank descending
IsRanked(list) ==
    \A i, j \in 1..Len(list) :
        i < j => \/ list[i].confidence > list[j].confidence
                 \/ /\ list[i].confidence = list[j].confidence
                    /\ RiskRank(list[i].risk_level) >= RiskRank(list[j].risk_level)

\* no IP left out of the list has a higher confidence than an IP in it
NoneLeftOutAbove(list, candidates) ==
    \A c \in 1..Len(candidates) :
        (\A k \in 1..Len(list) : list[k].ip # candidates[c].ip)
        => \A k \in 1..Len(list) : candidates[c].confidence <= list[k].confidence

IsTopThreats(list, candidates) ==
    /\ Len(list) <= 10
    /\ IsRanked(list)
    /\ NoneLeftOutAbove(list, candidates)

C25_JsonList ==
    phase \in {"ranked", "saved"}
    => IsTopThreats(Threats(top_threats),
                    Threats(IpAnalysisList(ip_counts)))

C25_SummaryList ==
    phase = "saved"
    => IsTopThreats(Threats(summary_threats),
                    Threats(IpAnalysisList(ip_counts)))

C25_TopBots ==
    phase = "reported" => IsTopThreats(top_bots, detection_results)

\* C25: every top-threats list of a report (the list of the JSON and CSV
\* reports, the TOP THREATS section of the summary, 'top_bots' of the bot
\* report) is ordered by confidence descending with ties by risk rank
\* descending, holds at most 10 entries and leaves out no IP of a higher
\* confidence than one it holds.
C25_TopThreatsRanked ==
    /\ C25_JsonList
    /\ C25_SummaryList
    /\ C25_TopBots

(***************************************************************************)
(* Properties of the configuration check *)

\* the setting is a number above zero; a setting the configuration does
\* not hold breaks no bound
IsPositive(section, key) ==
    key \in DOMAIN section =>
        section[key].kind \in {"int", "float"} /\ section[key].value > 0

\* the setting is a number within [0,1]
IsProbability(section, key) ==
    key \in DOMAIN section =>
        /\ section[key].kind \in {"int", "float"}
        /\ 0 <= section[key].value
        /\ section[key].value <= 100

\* positive rate thresholds, probabilities within [0,1], a positive DDoS
\* threshold and window
ValidConfiguration(cfg) ==
    /\ IsPositive(cfg.rate_limits, "requests_per_minute")
    /\ IsPositive(cfg.rate_limits, "requests_per_hour")
    /\ IsProbability(cfg.rate_limits, "error_rate_threshold")
    /\ IsProbability(cfg.rate_limits, "bot_confidence_threshold")
    /\ IsProbability(cfg.ddos_detection, "min_error_rate")
    /\ IsProbability(cfg.ddos_detection, "min_ip_diversity")
    /\ IsPositive(cfg.ddos_detection, "min_requests_threshold")
    /\ IsPositive(cfg.ddos_detection, "time_window_minutes")

\* C22: a run never proceeds to scoring with an invalid configuration: a
\* rate threshold that is negative or zero, a probability-valued setting
\* outside [0,1] and a DDoS threshold or window that is not positive are
\* rejected as InvalidConfiguration before a detector scores a pattern.
C22_InvalidConfigurationRejected ==
    /\ phase = "scoring" => ValidConfiguration(config)
    /\ (phase = "validated" /\ ~ValidConfiguration(config)) => config_errors # <<>>

====
